---- MODULE Spec2Model ----
(***************************************************************************)
(* Model of the Apple Photos export tool: date resolution, duplicate       *)
(* detection and resolution, file organisation and the export run.         *)
(* Source: src/src/core/{metadata_extractor,duplicate_handler,             *)
(* file_organizer,export_photos}.py                                        *)
(***************************************************************************)
EXTENDS Integers, Sequences, FiniteSets, TLC

VARIABLES
    pc,             \* position of the operation in progress
    exif_date,      \* choose_best_date argument (NoDate models None)
    xmp_date,       \* choose_best_date argument (NoDate models None)
    file_date,      \* choose_best_date argument
    best_date,      \* <<date, source>> returned by choose_best_date
    src,            \* files of the source tree, in traversal (rglob) order
    photo_files,    \* list of file ids (indices into src) to process
    duplicates,     \* ordered dict: sequence of [key, paths]
    file_timestamps, \* FileOrganizer.file_timestamps (defaultdict(int))
    gen_log,        \* history of generate_filename calls: [date, ext, name]
    strategy,       \* PhotoExporter.duplicate_strategy
    is_dry_run,     \* PhotoExporter.is_dry_run
    out,            \* files of an export_* directory left under the target
    files,          \* the file system: set of existing file paths
    dirs,           \* the file system: set of existing directories
    files0,         \* files at the start of the run
    dirs0,          \* dirs at the start of the run
    stats,          \* PhotoExporter.stats (ExportStats)
    hstats,         \* DuplicateHandler.stats (DuplicateStats)
    duplicates_to_preserve, \* DuplicateHandler.duplicates_to_preserve
    batch_results,  \* list of PhotoMetadata returned by the extraction stage
    next_result,    \* index of the placement loop over batch_results
    placed,         \* history of placements: [id, area, path, ok]
    writes,         \* history of file writes: [path, existed, id, kind]
    aae_result,     \* what the AAE locator returned, NoPath for None
    available_bytes, \* free space statvfs reports for the target, -1 when it raises
    process,        \* the command-line process: [entry, outcome, exit_code]
    monitor         \* the global PerformanceMonitor and the batch tasks in flight

datevars == <<exif_date, xmp_date, file_date, best_date>>

runvars == <<strategy, is_dry_run, out, files, dirs, files0, dirs0, stats, hstats,
             duplicates_to_preserve, batch_results, next_result, placed, writes,
             aae_result, available_bytes, process, monitor>>

vars == <<pc, datevars, src, photo_files, duplicates, file_timestamps, gen_log,
          runvars>>

----------------------------------------------------------------------------
(* Bounds of the model *)

MaxYear == 2024
MaxSec == 1
MaxDupFiles == 3
MaxHash == 2
MaxCalls == 3
MaxFiles == 3
MaxGroup == 5
MaxBatchFiles == 11
BurstLen == 998

----------------------------------------------------------------------------
(* Sequences *)

SeqsUpTo(S, n) == UNION {[1..k -> S] : k \in 0..n}

Range(s) == {s[i] : i \in 1..Len(s)}

----------------------------------------------------------------------------
(* Dates.  A datetime is [year, sec, us]: sec is the second within the     *)
(* year, us the microsecond field.  Python compares datetimes in           *)
(* chronological order.                                                    *)

NoDate == [year |-> 0, sec |-> 0, us |-> 0]

Years == 2023..MaxYear
Secs == 0..MaxSec
USecs == {0, 999, 1000, 2000}

Dates == [year : Years, sec : Secs, us : USecs]

OptDates == Dates \cup {NoDate}

DateLE(a, b) ==
    \/ a.year < b.year
    \/ a.year = b.year /\ a.sec < b.sec
    \/ a.year = b.year /\ a.sec = b.sec /\ a.us <= b.us

NoResult == <<NoDate, "unset">>

choose_best_date_tie_xmp(exif, xmp, fdate) ==
    IF exif # NoDate /\ xmp # NoDate
    THEN IF DateLE(exif, xmp) /\ exif # xmp THEN <<exif, "exif">> ELSE <<xmp, "xmp">>
    ELSE IF exif # NoDate THEN <<exif, "exif">>
    ELSE IF xmp # NoDate THEN <<xmp, "xmp">>
    ELSE <<fdate, "file">>

choose_best_date(exif, xmp, fdate) ==
    IF exif # NoDate /\ xmp # NoDate
    THEN IF DateLE(exif, xmp) THEN <<exif, "exif">> ELSE <<xmp, "xmp">>
    ELSE IF exif # NoDate THEN <<exif, "exif">>
    ELSE IF xmp # NoDate THEN <<xmp, "xmp">>
    ELSE <<fdate, "file">>

----------------------------------------------------------------------------
(* File formats and type categories *)

IMAGE_FORMATS == {"heic", "jpg", "jpeg", "png", "tiff", "tif", "raw", "cr2", "nef", "arw"}
VIDEO_FORMATS == {"mov", "mp4", "avi", "mkv", "m4v"}

get_file_type_category_merged(extension) == "image"

get_file_type_category(extension) ==
    IF extension \in IMAGE_FORMATS THEN "image"
    ELSE IF extension \in VIDEO_FORMATS THEN "video"
    ELSE "other"

----------------------------------------------------------------------------
(* Duplicate detection (DuplicateHandler.detect_duplicates) *)

\* f"{file_hash}_{file_type}" when hashing succeeds, f"{filename}_{file_type}"
\* when it raises.
composite_key(f) ==
    IF f.hash_ok
    THEN [hash |-> f.hash, fname |-> <<"", "">>, type |-> get_file_type_category(f.ext)]
    ELSE [hash |-> 0, fname |-> <<f.stem, f.ext>>, type |-> get_file_type_category(f.ext)]

KeyIndex(dups, key) ==
    IF \E k \in 1..Len(dups) : dups[k].key = key
    THEN CHOOSE k \in 1..Len(dups) : dups[k].key = key
    ELSE 0

\* One iteration of the loop body for file id p: st = [seen, dups], seen is
\* the set of [key, path] pairs of first occurrences.
detect_step(st, tree, p) ==
    LET key == composite_key(tree[p])
        isSeen == \E e \in st.seen : e.key = key
        first == (CHOOSE e \in st.seen : e.key = key).path
        k == KeyIndex(st.dups, key)
    IN  IF isSeen
        THEN IF k = 0
             THEN [seen |-> st.seen,
                   dups |-> Append(st.dups, [key |-> key, paths |-> <<first, p>>])]
             ELSE [seen |-> st.seen,
                   dups |-> [st.dups EXCEPT ![k].paths = Append(@, p)]]
        ELSE [seen |-> st.seen \cup {[key |-> key, path |-> p]}, dups |-> st.dups]

RECURSIVE detect_loop(_, _, _, _)
detect_loop(st, tree, list, i) ==
    IF i > Len(list) THEN st
    ELSE detect_loop(detect_step(st, tree, list[i]), tree, list, i + 1)

detect_duplicates(tree, list) ==
    detect_loop([seen |-> {}, dups |-> <<>>], tree, list, 1).dups

----------------------------------------------------------------------------
(* File names.  A name is a record; a generated name YYYYMMDD-HHMMSS-mmm.ext *)
(* carries its timestamp (year, sec), the digits mmm, the digits of the    *)
(* conflict suffix -NNN (empty when absent) and the extension.  A name of  *)
(* the source tree carries its stem s.  inner is the inner extension of a  *)
(* double-suffix name such as a.jpg.xmp.                                   *)

GenName(year, sec, mmm, ext) ==
    [s |-> "", year |-> year, sec |-> sec, mmm |-> mmm, conf |-> <<>>,
     inner |-> "", ext |-> ext]

SrcName(stem, ext) ==
    [s |-> stem, year |-> 0, sec |-> 0, mmm |-> <<>>, conf |-> <<>>,
     inner |-> "", ext |-> ext]

RECURSIVE str(_)
str(n) == IF n < 10 THEN <<n>> ELSE Append(str(n \div 10), n % 10)

RECURSIVE zfill(_, _)
zfill(digits, width) ==
    IF Len(digits) >= width THEN digits ELSE zfill(<<0>> \o digits, width)

BaseTimestamps == [year : Years, sec : Secs]

\* creation_date.strftime('%Y%m%d-%H%M%S')
strftime(date) == [year |-> date.year, sec |-> date.sec]

\* FileOrganizer.generate_filename: returns the name and the updated counter
\* dict.  sanitize_filename leaves the name unchanged: it holds only digits,
\* '-', '.' and the letters of the extension, and is shorter than 255.
generate_filename_no_increment(ts, creation_date, extension) ==
    LET base_timestamp == strftime(creation_date)
    IN  IF creation_date.us > 0
        THEN [name |-> GenName(base_timestamp.year, base_timestamp.sec,
                               zfill(str(creation_date.us \div 1000), 3), extension),
              ts |-> ts]
        ELSE [name |-> GenName(base_timestamp.year, base_timestamp.sec,
                               zfill(str(ts[base_timestamp] + 1), 3), extension),
              ts |-> ts]

generate_filename(ts, creation_date, extension) ==
    LET base_timestamp == strftime(creation_date)
    IN  IF creation_date.us > 0
        THEN [name |-> GenName(base_timestamp.year, base_timestamp.sec,
                               zfill(str(creation_date.us \div 1000), 3), extension),
              ts |-> ts]
        ELSE LET ts2 == [ts EXCEPT ![base_timestamp] = @ + 1]
             IN  [name |-> GenName(base_timestamp.year, base_timestamp.sec,
                                   zfill(str(ts2[base_timestamp]), 3), extension),
                  ts |-> ts2]

NoTimestamps == [b \in BaseTimestamps |-> 0]

----------------------------------------------------------------------------
(* Directories and paths *)

Dir(kind, year, day) == [kind |-> kind, year |-> year, day |-> day]

SourceDir == Dir("source", 0, 0)
TargetDir == Dir("target", 0, 0)
\* target_dir / <export timestamp>
ExportDir == Dir("export", 0, 0)
\* export_dir / str(year)
YearDir(year) == Dir("year", year, 0)
\* export_dir / duplicates_<timestamp>
DuplicatesDir == Dir("duplicates", 0, 0)
\* duplicates_dir / str(year) and duplicates_dir / str(year) / mm / dd
DupYearDir(year) == Dir("dupyear", year, 0)
DupDayDir(year, day) == Dir("dupday", year, day)
\* target_dir / export_<...>: an export directory found under the target
OldExportDir == Dir("export_old", 0, 0)

SECONDS_PER_DAY == 86400

DayOf(date) == date.sec \div SECONDS_PER_DAY

Path(dir, name) == [dir |-> dir, name |-> name]

NoPath == Path(Dir("none", 0, 0), SrcName("", ""))

\* Path.with_suffix(suffix): replaces the last suffix
with_suffix(path, suffix) == [path EXCEPT !.name.ext = suffix]

\* Path.with_suffix(path.suffix + suffix): a.jpg -> a.jpg.xmp
add_suffix(path, suffix) ==
    [path EXCEPT !.name.inner = path.name.ext, !.name.ext = suffix]

\* Stems of the model and the string functions of the AAE probes on them
StemAt(i) == <<"IMG_1", "1470", "a", "b", "c", "d", "e", "f", "g", "h", "i", "j">>[i]

startswith_IMG(stem) == stem \in {"IMG_1", "IMG_E1"}

\* f"IMG_O{photo_name[4:]}"
apple_stem(stem) ==
    IF stem = "IMG_1" THEN "IMG_O1" ELSE IF stem = "IMG_E1" THEN "IMG_OE1" ELSE ""

isdigit(stem) == stem \in {"1470"}

\* f"{photo_name}O"
numeric_stem(stem) == stem \o "O"

\* The first existing of a list of candidate paths, NoPath when none exists
RECURSIVE first_existing(_, _)
first_existing(fs, candidates) ==
    IF candidates = <<>> THEN NoPath
    ELSE IF Head(candidates) \in fs THEN Head(candidates)
    ELSE first_existing(fs, Tail(candidates))

\* FileOrganizer._find_xmp_file
find_xmp_file(fs, photo_path) ==
    first_existing(fs, <<add_suffix(photo_path, "xmp"), add_suffix(photo_path, "XMP"),
                         with_suffix(photo_path, "xmp"), with_suffix(photo_path, "XMP")>>)

\* FileOrganizer._find_aae_file
find_aae_file_numeric_first(fs, photo_path) ==
    LET direct == first_existing(fs, <<with_suffix(photo_path, "aae"),
                                       with_suffix(photo_path, "AAE")>>)
        photo_name == photo_path.name.s
    IN  IF isdigit(photo_name) /\ Path(photo_path.dir, SrcName(numeric_stem(photo_name), "aae")) \in fs
        THEN Path(photo_path.dir, SrcName(numeric_stem(photo_name), "aae"))
        ELSE IF direct # NoPath THEN direct
        ELSE IF startswith_IMG(photo_name)
        THEN first_existing(fs,
                 <<Path(photo_path.dir, SrcName(apple_stem(photo_name), "aae")),
                   Path(photo_path.dir, SrcName(apple_stem(photo_name), "AAE"))>>)
        ELSE IF isdigit(photo_name)
        THEN first_existing(fs,
                 <<Path(photo_path.dir, SrcName(numeric_stem(photo_name), "aae")),
                   Path(photo_path.dir, SrcName(numeric_stem(photo_name), "AAE"))>>)
        ELSE NoPath

find_aae_file(fs, photo_path) ==
    LET direct == first_existing(fs, <<with_suffix(photo_path, "aae"),
                                       with_suffix(photo_path, "AAE")>>)
        photo_name == photo_path.name.s
    IN  IF direct # NoPath THEN direct
        ELSE IF startswith_IMG(photo_name)
        THEN first_existing(fs,
                 <<Path(photo_path.dir, SrcName(apple_stem(photo_name), "aae")),
                   Path(photo_path.dir, SrcName(apple_stem(photo_name), "AAE"))>>)
        ELSE IF isdigit(photo_name)
        THEN first_existing(fs,
                 <<Path(photo_path.dir, SrcName(numeric_stem(photo_name), "aae")),
                   Path(photo_path.dir, SrcName(numeric_stem(photo_name), "AAE"))>>)
        ELSE NoPath

\* find_aae_file of src/utils/file_utils.py
file_utils_find_aae_file(fs, photo_path) ==
    LET photo_name == photo_path.name.s
        direct == first_existing(fs, <<with_suffix(photo_path, "aae"),
                                       with_suffix(photo_path, "AAE")>>)
        apple == IF startswith_IMG(photo_name)
                 THEN first_existing(fs,
                          <<Path(photo_path.dir, SrcName(apple_stem(photo_name), "aae")),
                            Path(photo_path.dir, SrcName(apple_stem(photo_name), "AAE"))>>)
                 ELSE NoPath
    IN  IF direct # NoPath THEN direct
        ELSE IF apple # NoPath THEN apple
        ELSE IF isdigit(photo_name)
        THEN first_existing(fs,
                 <<Path(photo_path.dir, SrcName(numeric_stem(photo_name), "aae")),
                   Path(photo_path.dir, SrcName(numeric_stem(photo_name), "AAE"))>>)
        ELSE NoPath

\* FileOrganizer._resolve_filename_conflict
\* one test of 'while target_path.exists()' and, when it holds, one body
resolve_step(fs, original_target_path, st) ==
    IF st.target_path \notin fs THEN st
    ELSE [target_path |-> [original_target_path EXCEPT
                              !.name.conf = zfill(str(st.counter), 3)],
          counter |-> st.counter + 1]

\* up to n turns of the loop, evaluated by halves
RECURSIVE resolve_turns(_, _, _, _)
resolve_turns(fs, original_target_path, st, n) ==
    IF st.target_path \notin fs THEN st
    ELSE IF n <= 1 THEN resolve_step(fs, original_target_path, st)
    ELSE LET first_half == resolve_turns(fs, original_target_path, st, n \div 2)
         IN  resolve_turns(fs, original_target_path, first_half, n - n \div 2)

\* the loop ends within one turn per file of the directory
resolve_loop(fs, original_target_path, target_path, counter) ==
    resolve_turns(fs, original_target_path,
                  [target_path |-> target_path, counter |-> counter],
                  Cardinality(fs) + 1).target_path

\* FileOrganizer._resolve_filename_conflict: counter = 1, then the loop
resolve_filename_conflict_from_two(fs, target_path) ==
    resolve_loop(fs, target_path, target_path, 2)

resolve_filename_conflict(fs, target_path) ==
    resolve_loop(fs, target_path, target_path, 1)

\* file_utils.generate_unique_filename: the 'while True' loop, which tests
\* the numbered name before it advances the counter
unique_loop(fs, base_path, filename, counter) ==
    resolve_loop(fs, Path(base_path, filename),
                 Path(base_path, [filename EXCEPT !.conf = zfill(str(counter), 3)]),
                 counter + 1).name

\* file_utils.generate_unique_filename
generate_unique_filename(fs, base_path, filename) ==
    IF Path(base_path, filename) \notin fs THEN filename
    ELSE unique_loop(fs, base_path, filename, 1)

----------------------------------------------------------------------------
(* Trees of files.  A file of a tree is                                    *)
(*   [stem, ext, hash, hash_ok, exif, xmp, xmpdate, aae, fdate]            *)
(* exif: what EXIF extraction yields (NoDate, a date, ErrDate = raises);   *)
(* xmp: which sidecar exists ("none", "full" = name.ext.xmp, "stem" =      *)
(* name.xmp); xmpdate: what XMP extraction yields on that sidecar;         *)
(* aae: "none", "direct" = name.aae, "apple" = IMG_O<n>.aae or <n>O.aae;   *)
(* fdate: the file modification time.                                      *)

ErrDate == [year |-> -1, sec |-> 0, us |-> 0]

D0 == [year |-> 2023, sec |-> 0, us |-> 0]
D1 == [year |-> 2023, sec |-> 0, us |-> 1000]
D2 == [year |-> 2024, sec |-> 0, us |-> 0]

Profile(ext, hash, exif, xmp, xmpdate, aae, fdate) ==
    [stem |-> "", ext |-> ext, hash |-> hash, hash_ok |-> TRUE, exif |-> exif,
     xmp |-> xmp, xmpdate |-> xmpdate, aae |-> aae, fdate |-> fdate,
     resolves |-> "inside"]

Profiles ==
    { Profile("jpg", 1, NoDate, "none", NoDate, "none", D0),
      Profile("jpg", 1, NoDate, "full", NoDate, "direct", D1),
      Profile("mov", 1, NoDate, "full", NoDate, "none", D1),
      Profile("jpg", 2, ErrDate, "none", NoDate, "none", D0),
      Profile("heic", 2, D0, "stem", D2, "none", D0),
      Profile("jpg", 2, D0, "stem", D0, "apple", D2) }

MkTree(ps) == [i \in 1..Len(ps) |-> [ps[i] EXCEPT !.stem = StemAt(i)]]

Trees(n) == {MkTree(ps) : ps \in SeqsUpTo(Profiles, n)}

PhotoPath(tree, dir, i) == Path(dir, SrcName(tree[i].stem, tree[i].ext))

SidecarPaths(tree, dir, i) ==
    LET f == tree[i]
        p == PhotoPath(tree, dir, i)
    IN  (IF f.xmp = "full" THEN {add_suffix(p, "xmp")}
         ELSE IF f.xmp = "stem" THEN {with_suffix(p, "xmp")} ELSE {})
        \cup
        (IF f.aae = "direct" THEN {with_suffix(p, "aae")}
         ELSE IF f.aae = "apple" /\ startswith_IMG(f.stem)
         THEN {Path(dir, SrcName(apple_stem(f.stem), "aae"))}
         ELSE IF f.aae = "apple" /\ isdigit(f.stem)
         THEN {Path(dir, SrcName(numeric_stem(f.stem), "aae"))}
         ELSE {})

TreeFiles(tree, dir) ==
    UNION {{PhotoPath(tree, dir, i)} \cup SidecarPaths(tree, dir, i) : i \in 1..Len(tree)}

----------------------------------------------------------------------------
(* Statistics *)

ZeroStats ==
    [total_files_processed |-> 0, photos_processed |-> 0, xmp_files_processed |-> 0,
     aae_files_processed |-> 0, successful_exports |-> 0, failed_exports |-> 0,
     duplicate_files_found |-> 0, duplicate_files_resolved |-> 0,
     files_skipped_duplicates |-> 0, duplicate_files_preserved |-> 0,
     duplicate_files_discarded |-> 0]

ZeroDuplicateStats ==
    [duplicate_files_found |-> 0, duplicate_files_resolved |-> 0,
     duplicate_files_preserved |-> 0, duplicate_files_discarded |-> 0,
     files_skipped_duplicates |-> 0]

Add(st, field, n) == [st EXCEPT ![field] = @ + n]

\* PhotoExporter._update_duplicate_stats
update_duplicate_stats(st, hst) ==
    [st EXCEPT !.duplicate_files_found = hst.duplicate_files_found,
               !.duplicate_files_resolved = hst.duplicate_files_resolved,
               !.duplicate_files_preserved = hst.duplicate_files_preserved,
               !.duplicate_files_discarded = hst.duplicate_files_discarded,
               !.files_skipped_duplicates = hst.files_skipped_duplicates]

----------------------------------------------------------------------------
(* Duplicate resolution (DuplicateHandler.handle_duplicates) *)

FirstOfEach(dups) == [k \in 1..Len(dups) |-> dups[k].paths[1]]

RECURSIVE all_duplicate_files(_)
all_duplicate_files(dups) ==
    IF dups = <<>> THEN <<>> ELSE Head(dups).paths \o all_duplicate_files(Tail(dups))

RECURSIVE keep_first_loop(_, _)
keep_first_loop(dups, hst) ==
    IF dups = <<>> THEN hst
    ELSE keep_first_loop(Tail(dups),
             Add(hst, "duplicate_files_resolved", Len(Head(dups).paths) - 1))

handle_keep_first_keep_all(dups, hst) ==
    [files |-> all_duplicate_files(dups), hstats |-> keep_first_loop(dups, hst),
     to_preserve |-> <<>>]

handle_keep_first(dups, hst) ==
    [files |-> FirstOfEach(dups), hstats |-> keep_first_loop(dups, hst),
     to_preserve |-> <<>>]

RECURSIVE skip_loop(_, _)
skip_loop(dups, hst) ==
    IF dups = <<>> THEN hst
    ELSE skip_loop(Tail(dups),
             Add(hst, "files_skipped_duplicates", Len(Head(dups).paths)))

handle_skip_duplicates_miscount(dups, hst) ==
    [files |-> <<>>, hstats |-> keep_first_loop(dups, hst), to_preserve |-> <<>>]

handle_skip_duplicates(dups, hst) ==
    [files |-> <<>>, hstats |-> skip_loop(dups, hst), to_preserve |-> <<>>]

RECURSIVE preserve_loop(_, _)
preserve_loop(dups, hst) ==
    IF dups = <<>> THEN hst
    ELSE LET paths == Head(dups).paths
             h1 == Add(hst, "duplicate_files_resolved", 1)
             h2 == IF Len(paths) > 1 THEN Add(h1, "duplicate_files_preserved", 1) ELSE h1
             h3 == IF Len(paths) > 2
                   THEN Add(h2, "duplicate_files_discarded", Len(paths) - 2) ELSE h2
         IN  preserve_loop(Tail(dups), h3)

\* DuplicateHandler._handle_preserve_duplicates
handle_preserve_duplicates_all_files(dups, hst) ==
    [files |-> all_duplicate_files(dups), hstats |-> preserve_loop(dups, hst),
     to_preserve |-> dups]

handle_preserve_duplicates(dups, hst) ==
    [files |-> FirstOfEach(dups), hstats |-> preserve_loop(dups, hst),
     to_preserve |-> dups]

\* DuplicateGroup.resolve_duplicates (src/core/models.py) on the files of one
\* group: the files to process and the lists the group records
RECURSIVE resolve_duplicates(_, _)
resolve_duplicates(strat, group_files) ==
    IF group_files = <<>>
    THEN [result |-> <<>>, resolved_files |-> <<>>, preserved_files |-> <<>>,
          discarded_files |-> <<>>]
    ELSE IF strat = "keep_first"
    THEN [result |-> <<Head(group_files)>>, resolved_files |-> <<Head(group_files)>>,
          preserved_files |-> <<>>, discarded_files |-> Tail(group_files)]
    ELSE IF strat = "skip_duplicates"
    THEN [result |-> <<>>, resolved_files |-> <<>>, preserved_files |-> <<>>,
          discarded_files |-> group_files]
    ELSE IF strat = "preserve_duplicates"
    THEN [result |-> <<Head(group_files)>>, resolved_files |-> <<Head(group_files)>>,
          preserved_files |-> IF Len(group_files) > 1 THEN <<group_files[2]>> ELSE <<>>,
          discarded_files |-> IF Len(group_files) > 2 THEN Tail(Tail(group_files))
                              ELSE <<>>]
    ELSE resolve_duplicates("keep_first", group_files)

handle_duplicates_unknown_skips(strat, dups, hst) ==
    IF dups = <<>> THEN [files |-> <<>>, hstats |-> hst, to_preserve |-> <<>>]
    ELSE LET h == [hst EXCEPT !.duplicate_files_found = Len(dups)]
         IN  IF strat = "keep_first" THEN handle_keep_first(dups, h)
             ELSE IF strat = "skip_duplicates" THEN handle_skip_duplicates(dups, h)
             ELSE IF strat = "preserve_duplicates" THEN handle_preserve_duplicates(dups, h)
             ELSE IF strat = "cleanup_duplicates"
             THEN [files |-> <<>>, hstats |-> h, to_preserve |-> <<>>]
             ELSE IF strat = "!delete!"
             THEN [files |-> <<>>, hstats |-> h, to_preserve |-> <<>>]
             ELSE handle_skip_duplicates(dups, h)

handle_duplicates(strat, dups, hst) ==
    IF dups = <<>> THEN [files |-> <<>>, hstats |-> hst, to_preserve |-> <<>>]
    ELSE LET h == [hst EXCEPT !.duplicate_files_found = Len(dups)]
         IN  IF strat = "keep_first" THEN handle_keep_first(dups, h)
             ELSE IF strat = "skip_duplicates" THEN handle_skip_duplicates(dups, h)
             ELSE IF strat = "preserve_duplicates" THEN handle_preserve_duplicates(dups, h)
             ELSE IF strat = "cleanup_duplicates"
             THEN [files |-> <<>>, hstats |-> h, to_preserve |-> <<>>]
             ELSE IF strat = "!delete!"
             THEN [files |-> <<>>, hstats |-> h, to_preserve |-> <<>>]
             ELSE handle_keep_first(dups, h)

\* [f for f in photo_files if f not in all_duplicate_files]
RECURSIVE remove_all(_, _)
remove_all(list, removed) ==
    IF list = <<>> THEN <<>>
    ELSE IF Head(list) \in removed THEN remove_all(Tail(list), removed)
    ELSE <<Head(list)>> \o remove_all(Tail(list), removed)

----------------------------------------------------------------------------
(* Metadata extraction (PhotoExporter._process_photo_worker) *)

SUPPORTED_IMAGE_FORMATS == IMAGE_FORMATS
SUPPORTED_VIDEO_FORMATS == VIDEO_FORMATS

Metadata(id, date, source, ext, valid) ==
    [id |-> id, creation_date |-> date, date_source |-> source,
     file_extension |-> ext, is_valid |-> valid]

\* PhotoExporter._extract_exif_date: None for HEIC, else what the file yields
extract_exif_date(f) == IF f.ext = "heic" THEN NoDate ELSE f.exif

\* the dates the two extractors yield for file i of the tree; ErrDate when
\* the extractor raises MetadataExtractionError
extracted_dates(fs, tree, dir, i) ==
    LET f == tree[i]
        xmp_path == find_xmp_file(fs, PhotoPath(tree, dir, i))
    IN  [exif |-> IF f.ext \in SUPPORTED_IMAGE_FORMATS THEN extract_exif_date(f) ELSE NoDate,
         xmp |-> IF xmp_path # NoPath THEN f.xmpdate ELSE NoDate,
         xmp_path |-> xmp_path]

process_photo_worker_error_dated(fs, tree, dir, i) ==
    LET f == tree[i]
        d == extracted_dates(fs, tree, dir, i)
    IN  IF d.exif = ErrDate \/ d.xmp = ErrDate
        THEN Metadata(i, f.fdate, "error", f.ext, FALSE)
        ELSE LET best == choose_best_date(d.exif, d.xmp, f.fdate)
             IN  Metadata(i, best[1], best[2], f.ext, TRUE)

process_photo_worker(fs, tree, dir, i) ==
    LET f == tree[i]
        d == extracted_dates(fs, tree, dir, i)
    IN  IF d.exif = ErrDate \/ d.xmp = ErrDate
        THEN Metadata(i, NoDate, "error", f.ext, FALSE)
        ELSE LET best == choose_best_date(d.exif, d.xmp, f.fdate)
             IN  Metadata(i, best[1], best[2], f.ext, TRUE)

\* security_utils: where Path.resolve() lands for a directory entry: inside
\* the base directory, in one of the allowed directories of the user's home
\* (Downloads, Pictures, ...), or anywhere else (a symlink out of the source).
Resolutions == {"inside", "user_dir", "outside"}

\* security_utils._is_allowed_user_directory
is_allowed_user_directory(resolved) == resolved = "user_dir"

\* security_utils.validate_path against the source directory; the names of
\* the model hold none of the patterns _is_safe_path rejects.
validate_path(resolved) ==
    IF is_allowed_user_directory(resolved) THEN "ok"
    ELSE IF resolved # "inside" THEN "SecurityError"
    ELSE "ok"

\* PhotoExporter._process_photo_file (sequential variant, updates stats).
\* Its AAE probes find the same file as FileOrganizer._find_aae_file.
\* On a SecurityError it returns None (no valid metadata, stats untouched).
process_photo_file(fs, st, tree, dir, i) ==
    LET f == tree[i]
        d == extracted_dates(fs, tree, dir, i)
        aae_path == find_aae_file(fs, PhotoPath(tree, dir, i))
        s1 == Add(Add(st, "total_files_processed", 1), "photos_processed", 1)
    IN  IF validate_path(f.resolves) = "SecurityError"
        THEN [meta |-> Metadata(i, NoDate, "security", f.ext, FALSE), stats |-> st]
        ELSE IF d.exif = ErrDate \/ d.xmp = ErrDate
        THEN [meta |-> Metadata(i, NoDate, "error", f.ext, FALSE),
              stats |-> Add(s1, "failed_exports", 1)]
        ELSE LET s2 == IF d.xmp_path # NoPath THEN Add(s1, "xmp_files_processed", 1) ELSE s1
                 s3 == IF aae_path # NoPath THEN Add(s2, "aae_files_processed", 1) ELSE s2
                 best == choose_best_date(d.exif, d.xmp, f.fdate)
             IN  [meta |-> Metadata(i, best[1], best[2], f.ext, TRUE), stats |-> s3]

\* PhotoExporter._process_files_in_batches: batch size and the batches
Workers == 2

Min(a, b) == IF a <= b THEN a ELSE b
Max(a, b) == IF a >= b THEN a ELSE b

\* self.batch_size = min(100, max(10, len(list(source_dir.rglob("*"))) // 10))
exporter_batch_size(n_entries) == Min(100, Max(10, n_entries \div 10))

batch_size(n_entries, n_files) ==
    Min(exporter_batch_size(n_entries), Max(10, n_files \div Workers))

NumBatches(n_files, size) == (n_files + size - 1) \div size

Batch(list, size, k) == SubSeq(list, (k - 1) * size + 1, Min(k * size, Len(list)))

RECURSIVE concat_batches(_, _, _, _)
concat_batches(order, list, size, k) ==
    IF k > Len(order) THEN <<>>
    ELSE Batch(list, size, order[k]) \o concat_batches(order, list, size, k + 1)

----------------------------------------------------------------------------
(* File organisation (FileOrganizer) *)

\* shutil.copy2 into the file system state o = [files, dirs, writes]
copy2(o, target, id, kind) ==
    [o EXCEPT !.files = @ \cup {target},
              !.writes = Append(@, [path |-> target, existed |-> target \in o.files,
                                    id |-> id, kind |-> kind])]

\* The copy of a placement on which shutil.copy2 raises an I/O error
CopyFailures == {"none", "primary", "xmp", "aae"}

\* FileOrganizer._copy_associated_files; raised when copy2 raises, on the
\* I/O error fail or because the target directory does not exist
copy_associated_files(o, original_path, target_path, target_dir, id, fail) ==
    LET xmp_path == find_xmp_file(o.files, original_path)
        aae_path == find_aae_file(o.files, original_path)
        xmp_target_path == Path(target_dir, with_suffix(target_path, "xmp").name)
        aae_target_path == Path(target_dir, with_suffix(target_path, "aae").name)
        o1 == IF xmp_path # NoPath THEN copy2(o, xmp_target_path, id, "xmp") ELSE o
        o2 == IF aae_path # NoPath THEN copy2(o1, aae_target_path, id, "aae") ELSE o1
    IN  IF xmp_path # NoPath /\ (target_dir \notin o.dirs \/ fail = "xmp")
        THEN [o |-> o, raised |-> TRUE]
        ELSE IF aae_path # NoPath /\ (target_dir \notin o.dirs \/ fail = "aae")
        THEN [o |-> o1, raised |-> TRUE]
        ELSE [o |-> o2, raised |-> FALSE]

\* FileOrganizer.create_directory_structure
create_directory_structure(o, dry, year) ==
    IF dry THEN o ELSE [o EXCEPT !.dirs = @ \cup {TargetDir, ExportDir, YearDir(year)}]

\* FileOrganizer.copy_photo_with_metadata
copy_photo_with_metadata(o, ts, dry, original_path, metadata, target_dir, fail) ==
    IF ~metadata.is_valid \/ metadata.creation_date = NoDate
    THEN [o |-> o, ts |-> ts, result |-> FALSE, target |-> NoPath, name |-> NoPath.name]
    ELSE LET g == generate_filename(ts, metadata.creation_date, metadata.file_extension)
             target_path == resolve_filename_conflict(o.files, Path(target_dir, g.name))
         IN  IF dry
             THEN [o |-> o, ts |-> g.ts, result |-> TRUE, target |-> target_path,
                   name |-> g.name]
             ELSE IF fail = "primary"
             THEN [o |-> o, ts |-> g.ts, result |-> FALSE, target |-> target_path,
                   name |-> g.name]
             ELSE LET o1 == copy2(o, target_path, metadata.id, "primary")
                      a == copy_associated_files(o1, original_path, target_path,
                                                 target_dir, metadata.id, fail)
                  IN  [o |-> a.o, ts |-> g.ts, result |-> ~a.raised,
                       target |-> target_path, name |-> g.name]

\* FileOrganizer.copy_duplicate_photo, on a file system without I/O errors
copy_duplicate_photo_flat(o, ts, dry, original_path, metadata, duplicates_dir) ==
    IF ~metadata.is_valid \/ metadata.creation_date = NoDate
    THEN [o |-> o, ts |-> ts, result |-> FALSE, target |-> NoPath, name |-> NoPath.name,
          copied |-> FALSE]
    ELSE LET year == metadata.creation_date.year
             target_dir == DupYearDir(year)
             o0 == IF dry THEN o
                   ELSE [o EXCEPT !.dirs = @ \cup {TargetDir, ExportDir, duplicates_dir,
                                                    DupYearDir(year), target_dir}]
             g == generate_filename(ts, metadata.creation_date, metadata.file_extension)
             target_path == resolve_filename_conflict(o0.files, Path(target_dir, g.name))
             o1 == IF dry THEN o0 ELSE copy2(o0, target_path, metadata.id, "primary")
             a == copy_associated_files(o1, original_path, target_path, target_dir,
                                        metadata.id, "none")
         IN  [o |-> a.o, ts |-> g.ts, result |-> ~a.raised, target |-> target_path,
              name |-> g.name, copied |-> ~dry]

copy_duplicate_photo(o, ts, dry, original_path, metadata, duplicates_dir) ==
    IF ~metadata.is_valid \/ metadata.creation_date = NoDate
    THEN [o |-> o, ts |-> ts, result |-> FALSE, target |-> NoPath, name |-> NoPath.name,
          copied |-> FALSE]
    ELSE LET year == metadata.creation_date.year
             target_dir == DupDayDir(year, DayOf(metadata.creation_date))
             o0 == IF dry THEN o
                   ELSE [o EXCEPT !.dirs = @ \cup {TargetDir, ExportDir, duplicates_dir,
                                                    DupYearDir(year), target_dir}]
             g == generate_filename(ts, metadata.creation_date, metadata.file_extension)
             target_path == resolve_filename_conflict(o0.files, Path(target_dir, g.name))
             o1 == IF dry THEN o0 ELSE copy2(o0, target_path, metadata.id, "primary")
             a == copy_associated_files(o1, original_path, target_path, target_dir,
                                        metadata.id, "none")
         IN  [o |-> a.o, ts |-> g.ts, result |-> ~a.raised, target |-> target_path,
              name |-> g.name, copied |-> ~dry]

----------------------------------------------------------------------------
(* Values of the variables a specification does not use *)

\* run_export called directly, by no command-line entry point
NoProcess == [entry |-> "run_export", outcome |-> "running", exit_code |-> -1]

\* PerformanceMonitor.__init__: no operation counted, none current, no timing
\* stored; no batch task submitted.
NoMonitor ==
    [total_operations |-> 0, current_operations |-> 0, operation_timings |-> 0,
     task |-> <<>>, completed |-> <<>>]

IdleDate ==
    /\ exif_date = NoDate
    /\ xmp_date = NoDate
    /\ file_date = NoDate
    /\ best_date = NoResult

IdleRun ==
    /\ strategy = "keep_first"
    /\ is_dry_run = TRUE
    /\ out = <<>>
    /\ files = {}
    /\ dirs = {}
    /\ files0 = {}
    /\ dirs0 = {}
    /\ stats = ZeroStats
    /\ hstats = ZeroDuplicateStats
    /\ duplicates_to_preserve = <<>>
    /\ batch_results = <<>>
    /\ next_result = 1
    /\ placed = <<>>
    /\ writes = <<>>
    /\ aae_result = NoPath
    /\ available_bytes = 0
    /\ process = NoProcess
    /\ monitor = NoMonitor

----------------------------------------------------------------------------
(* Specification of the date chooser *)

InitDate ==
    /\ pc = "date_input"
    /\ exif_date \in OptDates
    /\ xmp_date \in OptDates
    /\ file_date \in Dates
    /\ best_date = NoResult
    /\ src = <<>>
    /\ photo_files = <<>>
    /\ duplicates = <<>>
    /\ file_timestamps = NoTimestamps
    /\ gen_log = <<>>
    /\ IdleRun

ChooseBestDate ==
    /\ pc = "date_input"
    /\ best_date' = choose_best_date(exif_date, xmp_date, file_date)
    /\ pc' = "date_done"
    /\ UNCHANGED <<exif_date, xmp_date, file_date, src, photo_files, duplicates,
                   file_timestamps, gen_log, runvars>>

NextDate == ChooseBestDate

SpecDate == InitDate /\ [][NextDate]_vars

----------------------------------------------------------------------------
(* Specification of duplicate detection on an arbitrary input list *)

DupExts == {"jpg", "mov", "txt"}
DupStems == {"a", "b"}

\* the hash of a file whose hashing raises plays no part
DupFile ==
    {f \in [stem : DupStems, ext : DupExts, hash : 1..MaxHash, hash_ok : BOOLEAN] :
        f.hash_ok \/ f.hash = 1}

InitDup ==
    /\ pc = "dup_input"
    /\ src \in SeqsUpTo(DupFile, MaxDupFiles)
    /\ photo_files = [i \in 1..Len(src) |-> i]
    /\ duplicates = <<>>
    /\ exif_date = NoDate
    /\ xmp_date = NoDate
    /\ file_date = NoDate
    /\ best_date = NoResult
    /\ file_timestamps = NoTimestamps
    /\ gen_log = <<>>
    /\ IdleRun

DetectDuplicates ==
    /\ pc = "dup_input"
    /\ duplicates' = detect_duplicates(src, photo_files)
    /\ pc' = "dup_done"
    /\ UNCHANGED <<exif_date, xmp_date, file_date, best_date, src, photo_files,
                   file_timestamps, gen_log, runvars>>

NextDup == DetectDuplicates

SpecDup == InitDup /\ [][NextDup]_vars

----------------------------------------------------------------------------
(* Specification of a run's sequence of generate_filename calls *)

NameExts == {"jpg", "mov"}

\* 999 microseconds give the milliseconds 000, 1000 microseconds give 001
NameDates == [year : {MaxYear}, sec : Secs, us : {0, 999, 1000}]

InitName ==
    /\ pc = "naming"
    /\ file_timestamps = NoTimestamps
    /\ gen_log = <<>>
    /\ exif_date = NoDate
    /\ xmp_date = NoDate
    /\ file_date = NoDate
    /\ best_date = NoResult
    /\ src = <<>>
    /\ photo_files = <<>>
    /\ duplicates = <<>>
    /\ IdleRun

GenerateFilename ==
    /\ pc = "naming"
    /\ Len(gen_log) < MaxCalls
    /\ \E creation_date \in NameDates, extension \in NameExts :
          LET r == generate_filename(file_timestamps, creation_date, extension)
          IN  /\ file_timestamps' = r.ts
              /\ gen_log' = Append(gen_log, [date |-> creation_date, ext |-> extension,
                                             name |-> r.name, calls |-> 1])
    /\ UNCHANGED <<pc, exif_date, xmp_date, file_date, best_date, src, photo_files,
                   duplicates, runvars>>

\* n consecutive calls of generate_filename with the same arguments (the
\* first half of them, then the rest): the result of the last one
RECURSIVE generate_burst(_, _, _, _)
generate_burst(ts, creation_date, extension, n) ==
    IF n <= 1 \/ DOMAIN ts = {} THEN generate_filename(ts, creation_date, extension)
    ELSE LET first_half == generate_burst(ts, creation_date, extension, n \div 2)
         IN  generate_burst(first_half.ts, creation_date, extension, n - n \div 2)

\* A burst of BurstLen calls for files sharing one timestamp without a
\* sub-second part, once in a run; the log keeps the last call and the
\* number of calls
GenerateBurst ==
    /\ pc = "naming"
    /\ Len(gen_log) < MaxCalls
    /\ \A j \in 1..Len(gen_log) : gen_log[j].calls = 1
    /\ \E creation_date \in {d \in NameDates : d.us = 0 /\ d.sec = 0},
          extension \in NameExts :
          LET r == generate_burst(file_timestamps, creation_date, extension, BurstLen)
          IN  /\ file_timestamps' = r.ts
              /\ gen_log' = Append(gen_log, [date |-> creation_date, ext |-> extension,
                                             name |-> r.name, calls |-> BurstLen])
    /\ UNCHANGED <<pc, exif_date, xmp_date, file_date, best_date, src, photo_files,
                   duplicates, runvars>>

NextName == GenerateFilename \/ GenerateBurst

SpecName == InitName /\ [][NextName]_vars

----------------------------------------------------------------------------
(* Deleting duplicates (PhotoExporter._delete_duplicates_from_output and   *)
(* _delete_duplicates_from_source, which differ in their messages only)    *)

\* the deletion of one duplicate path and its sidecars; d = [files, stats]
delete_path_ignoring_dry_run(d, path, dry) ==
    LET f1 == d.files \ {path}
        xmp_path == first_existing(f1, <<add_suffix(path, "xmp"), add_suffix(path, "XMP"),
                                         with_suffix(path, "xmp"), with_suffix(path, "XMP")>>)
        f2 == f1 \ {xmp_path}
        direct == first_existing(f2, <<with_suffix(path, "aae"), with_suffix(path, "AAE")>>)
        photo_name == path.name.s
        aae_path ==
            IF direct # NoPath THEN direct
            ELSE IF startswith_IMG(photo_name)
            THEN first_existing(f2,
                     <<Path(path.dir, SrcName(apple_stem(photo_name), "aae")),
                       Path(path.dir, SrcName(apple_stem(photo_name), "AAE"))>>)
            ELSE NoPath
    IN  [files |-> f2 \ {aae_path},
         stats |-> Add(d.stats, "duplicate_files_discarded", 1)]

delete_path(d, path, dry) ==
    IF dry THEN d
    ELSE LET f1 == d.files \ {path}
             xmp_path == first_existing(f1, <<add_suffix(path, "xmp"), add_suffix(path, "XMP"),
                                              with_suffix(path, "xmp"), with_suffix(path, "XMP")>>)
             f2 == f1 \ {xmp_path}
             direct == first_existing(f2, <<with_suffix(path, "aae"), with_suffix(path, "AAE")>>)
             photo_name == path.name.s
             aae_path ==
                 IF direct # NoPath THEN direct
                 ELSE IF startswith_IMG(photo_name)
                 THEN first_existing(f2,
                          <<Path(path.dir, SrcName(apple_stem(photo_name), "aae")),
                            Path(path.dir, SrcName(apple_stem(photo_name), "AAE"))>>)
                 ELSE NoPath
         IN  [files |-> f2 \ {aae_path},
              stats |-> Add(d.stats, "duplicate_files_discarded", 1)]

\* paths[1:] of every group, in order
RECURSIVE files_to_delete(_)
files_to_delete(dups) ==
    IF dups = <<>> THEN <<>> ELSE Tail(Head(dups).paths) \o files_to_delete(Tail(dups))

RECURSIVE delete_loop(_, _, _, _, _)
delete_loop(d, tree, dir, ids, dry) ==
    IF ids = <<>> THEN d
    ELSE delete_loop(delete_path(d, PhotoPath(tree, dir, Head(ids)), dry),
                     tree, dir, Tail(ids), dry)

\* returns the file system, the statistics and files_to_keep
delete_duplicates(d, tree, dir, dups, dry) ==
    LET r == delete_loop(d, tree, dir, files_to_delete(dups), dry)
    IN  [files |-> r.files, stats |-> r.stats, files_to_keep |-> FirstOfEach(dups)]

\* The PhotoExporter class defines no method _detect_duplicates
PhotoExporter_has_detect_duplicates == FALSE

----------------------------------------------------------------------------
(* Specification of a run of PhotoExporter.run_export *)

ExportStrategies == {"keep_first", "skip_duplicates", "preserve_duplicates", "newest"}

OldDuplicatesDir == Dir("duplicates_old", 0, 0)

LogName(dry) == SrcName(IF dry THEN "ts_dry" ELSE "ts_export", "log")
MetadataName == SrcName("ts_metadata", "json")
SummaryName == SrcName("ts_summary", "txt")
MetricsName == SrcName("ts_performance_metrics", "json")
AnalysisName == SrcName("ts_performance_analysis", "txt")

\* photo_path.stat().st_size, the same for every file of the model
FILE_SIZE == 10

\* sum(photo_path.stat().st_size for photo_path in photo_files)
total_size(list) == FILE_SIZE * Len(list)

\* int(required_size_bytes * 1.1)
required_with_buffer(required_size_bytes) == (required_size_bytes * 11) \div 10

\* PhotoExporter._check_disk_space: has_enough_space; True when statvfs raises
check_disk_space(available, required_size_bytes) ==
    IF available < 0 THEN TRUE
    ELSE available >= required_with_buffer(required_size_bytes)

\* free space on the target: statvfs raises, room for one file without the
\* 10% buffer, room for every tree of the model
AvailableBytes == {-1, FILE_SIZE, 1000}

FreshExporter ==
    /\ pc = "start"
    /\ IdleDate
    /\ photo_files = <<>>
    /\ duplicates = <<>>
    /\ file_timestamps = NoTimestamps
    /\ gen_log = <<>>
    /\ is_dry_run \in BOOLEAN
    /\ files0 = files
    /\ dirs0 = dirs
    /\ stats = ZeroStats
    /\ hstats = ZeroDuplicateStats
    /\ duplicates_to_preserve = <<>>
    /\ batch_results = <<>>
    /\ next_result = 1
    /\ placed = <<>>
    /\ writes = <<>>
    /\ aae_result = NoPath
    /\ available_bytes \in AvailableBytes
    /\ monitor = NoMonitor

FreshRun == FreshExporter /\ process = NoProcess

InitExport ==
    /\ strategy \in ExportStrategies
    /\ src \in Trees(MaxFiles)
    /\ out = <<>>
    /\ files = TreeFiles(src, SourceDir)
    /\ dirs = {SourceDir, TargetDir}

InitCleanup ==
    /\ strategy = "cleanup_duplicates"
    /\ src = <<>>
    /\ out = <<>>
    /\ \E old \in BOOLEAN :
          /\ files = IF old THEN {Path(OldDuplicatesDir, SrcName("a", "jpg"))} ELSE {}
          /\ dirs = {SourceDir, TargetDir}
                    \cup (IF old THEN {OldExportDir, OldDuplicatesDir} ELSE {})

InitDelete ==
    /\ strategy = "!delete!"
    /\ \E t \in Trees(MaxFiles) :
          \/ /\ src = t
             /\ out = <<>>
             /\ files = TreeFiles(t, SourceDir)
             /\ dirs = {SourceDir, TargetDir}
          \/ /\ src = <<>>
             /\ out = t
             /\ files = TreeFiles(t, OldExportDir)
             /\ dirs = {SourceDir, TargetDir, OldExportDir}

Init == (InitExport \/ InitCleanup \/ InitDelete) /\ FreshRun

inputs == <<datevars, src, out, strategy, is_dry_run, files0, dirs0, gen_log, aae_result,
           available_bytes, process, monitor>>

Ids(tree) == [i \in 1..Len(tree) |-> i]

\* run_export with '!delete!': PhotoExporter._handle_delete_duplicates_from_output
HandleDeleteDuplicatesFromOutput ==
    /\ pc = "start"
    /\ strategy = "!delete!"
    /\ IF TargetDir \notin dirs \/ OldExportDir \notin dirs \/ out = <<>>
       THEN /\ pc' = "returned"
            /\ UNCHANGED <<files, stats, duplicates>>
       ELSE IF ~PhotoExporter_has_detect_duplicates
       THEN /\ pc' = "raised"
            /\ UNCHANGED <<files, stats, duplicates>>
       ELSE LET dups == detect_duplicates(out, Ids(out))
                r == delete_duplicates([files |-> files, stats |-> stats], out,
                                       OldExportDir, dups, is_dry_run)
            IN  IF dups = <<>>
                THEN /\ pc' = "returned"
                     /\ UNCHANGED <<files, stats, duplicates>>
                ELSE /\ duplicates' = dups
                     /\ files' = r.files
                     /\ stats' = [r.stats EXCEPT
                                    !.duplicate_files_found = Len(dups),
                                    !.duplicate_files_resolved = Len(r.files_to_keep)]
                     /\ pc' = IF is_dry_run THEN "returned" ELSE "raised"
    /\ UNCHANGED <<inputs, photo_files, file_timestamps, dirs, hstats,
                   duplicates_to_preserve, batch_results, next_result, placed, writes>>

\* A call of PhotoExporter._delete_duplicates_from_output on the groups of
\* an export tree
DeleteDuplicatesFromOutput ==
    /\ pc = "start"
    /\ strategy = "!delete!"
    /\ out # <<>>
    /\ LET dups == detect_duplicates(out, Ids(out))
           r == delete_duplicates([files |-> files, stats |-> stats], out,
                                  OldExportDir, dups, is_dry_run)
       IN  /\ duplicates' = dups
           /\ files' = r.files
           /\ stats' = r.stats
    /\ pc' = "called"
    /\ UNCHANGED <<inputs, photo_files, file_timestamps, dirs, hstats,
                   duplicates_to_preserve, batch_results, next_result, placed, writes>>

\* A call of PhotoExporter._delete_duplicates_from_source on the groups of
\* the source tree
DeleteDuplicatesFromSource ==
    /\ pc = "start"
    /\ strategy = "!delete!"
    /\ src # <<>>
    /\ LET dups == detect_duplicates(src, Ids(src))
           r == delete_duplicates([files |-> files, stats |-> stats], src,
                                  SourceDir, dups, is_dry_run)
       IN  /\ duplicates' = dups
           /\ files' = r.files
           /\ stats' = r.stats
    /\ pc' = "called"
    /\ UNCHANGED <<inputs, photo_files, file_timestamps, dirs, hstats,
                   duplicates_to_preserve, batch_results, next_result, placed, writes>>

\* PhotoExporter._create_export_directory, with _setup_export_logging and
\* setup_logging(log_dir=target_dir)
CreateExportDirectory ==
    /\ pc = "start"
    /\ strategy # "!delete!"
    /\ dirs' = dirs \cup {TargetDir} \cup (IF is_dry_run THEN {} ELSE {ExportDir})
    /\ files' = files \cup {Path(TargetDir, LogName(is_dry_run))}
    /\ pc' = "created"
    /\ UNCHANGED <<inputs, photo_files, duplicates, file_timestamps, stats, hstats,
                   duplicates_to_preserve, batch_results, next_result, placed, writes>>

\* run_export with 'cleanup_duplicates': PhotoExporter._cleanup_duplicates_folder
\* globs duplicates_* under the export directory of this run
CleanupDuplicatesFolder ==
    /\ pc = "created"
    /\ strategy = "cleanup_duplicates"
    /\ LET duplicates_folders == {d \in dirs : d = DuplicatesDir}
       IN  IF duplicates_folders = {} \/ is_dry_run
           THEN UNCHANGED <<files, dirs>>
           ELSE /\ dirs' = dirs \ duplicates_folders
                /\ files' = {f \in files : f.dir.kind \notin {"duplicates", "dupyear", "dupday"}}
    /\ pc' = "returned"
    /\ UNCHANGED <<inputs, photo_files, duplicates, file_timestamps, stats, hstats,
                   duplicates_to_preserve, batch_results, next_result, placed, writes>>

\* run_export: the scan of the source tree
is_unsupported(path) == path.name.ext \in {"xmp", "XMP"}

ScanSource ==
    /\ pc = "created"
    /\ strategy # "cleanup_duplicates"
    /\ photo_files' = Ids(src)
    /\ stats' = Add(stats, "total_files_processed",
                    Cardinality({f \in files : f.dir = SourceDir /\ is_unsupported(f)}))
    /\ pc' = IF src = <<>> THEN "returned" ELSE "scanned"
    /\ UNCHANGED <<inputs, duplicates, file_timestamps, files, dirs, hstats,
                   duplicates_to_preserve, batch_results, next_result, placed, writes>>

\* run_export: duplicate detection and resolution
HandleDuplicates ==
    /\ pc = "scanned"
    /\ LET dups == detect_duplicates(src, photo_files)
           r == handle_duplicates(strategy, dups, hstats)
           non_duplicate_files == remove_all(photo_files, Range(all_duplicate_files(dups)))
       IN  /\ duplicates' = dups
           /\ IF dups = <<>>
              THEN UNCHANGED <<photo_files, stats, hstats, duplicates_to_preserve>>
              ELSE /\ hstats' = r.hstats
                   /\ duplicates_to_preserve' = r.to_preserve
                   /\ stats' = update_duplicate_stats(stats, r.hstats)
                   /\ photo_files' = IF strategy = "skip_duplicates"
                                     THEN non_duplicate_files
                                     ELSE non_duplicate_files \o r.files
    /\ pc' = "resolved"
    /\ UNCHANGED <<inputs, file_timestamps, files, dirs, batch_results, next_result,
                   placed, writes>>

\* run_export: the disk space check, made in dry-run mode only
CheckDiskSpace ==
    /\ pc = "resolved"
    /\ IF is_dry_run
       THEN pc' = IF check_disk_space(available_bytes, total_size(photo_files))
                  THEN "extract" ELSE "returned"
       ELSE pc' = "extract"
    /\ UNCHANGED <<inputs, photo_files, duplicates, file_timestamps, files, dirs, stats,
                   hstats, duplicates_to_preserve, batch_results, next_result, placed,
                   writes>>

\* run_export: PhotoExporter._process_files_in_batches with
\* _process_photo_worker; the batches complete in any order
ExtractMetadata ==
    /\ pc = "extract"
    /\ LET size == batch_size(Cardinality({f \in files : f.dir = SourceDir}),
                              Len(photo_files))
           n == NumBatches(Len(photo_files), size)
       IN  \E order \in Permutations(1..n) :
              LET order_seq == [k \in 1..n |-> order[k]]
                  completed == concat_batches(order_seq, photo_files, size, 1)
              IN  batch_results' =
                      [k \in 1..Len(completed) |->
                          process_photo_worker(files, src, SourceDir, completed[k])]
    /\ next_result' = 1
    /\ pc' = "place"
    /\ UNCHANGED <<inputs, photo_files, duplicates, file_timestamps, files, dirs, stats,
                   hstats, duplicates_to_preserve, placed, writes>>

\* PhotoExporter._process_photo
process_photo(o, ts, dry, tree, metadata, fail) ==
    IF ~metadata.is_valid \/ metadata.creation_date = NoDate
    THEN [o |-> o, ts |-> ts, result |-> FALSE, target |-> NoPath, name |-> NoPath.name]
    ELSE LET year == metadata.creation_date.year
             o1 == create_directory_structure(o, dry, year)
         IN  copy_photo_with_metadata(o1, ts, dry, PhotoPath(tree, SourceDir, metadata.id),
                                      metadata, YearDir(year), fail)

\* run_export: one iteration of the loop over batch_results; the copies of
\* the iteration succeed or one of them raises an I/O error
place_result(failures) ==
    /\ pc = "place"
    /\ next_result <= Len(batch_results)
    /\ \E fail \in failures :
       LET result == batch_results[next_result]
           s1 == Add(Add(stats, "total_files_processed", 1), "photos_processed", 1)
           s2 == IF result.date_source = "xmp" THEN Add(s1, "xmp_files_processed", 1) ELSE s1
           r == process_photo([files |-> files, dirs |-> dirs, writes |-> writes],
                              file_timestamps, is_dry_run, src, result, fail)
       IN  IF result.is_valid
           THEN /\ files' = r.o.files
                /\ dirs' = r.o.dirs
                /\ writes' = r.o.writes
                /\ file_timestamps' = r.ts
                /\ stats' = IF r.result THEN Add(s2, "successful_exports", 1) ELSE s2
                /\ placed' = Append(placed, [id |-> result.id, area |-> "main",
                                             path |-> r.target, ok |-> r.result])
           ELSE /\ stats' = Add(s1, "failed_exports", 1)
                /\ UNCHANGED <<files, dirs, writes, file_timestamps, placed>>
    /\ next_result' = next_result + 1
    /\ UNCHANGED <<pc, inputs, photo_files, duplicates, hstats, duplicates_to_preserve,
                   batch_results>>

PlaceResult == place_result(CopyFailures)

\* the iteration on a file system without I/O errors
PlaceResultNoError == place_result({"none"})

\* PhotoExporter._process_preserved_duplicates: the loop over the groups;
\* st = [o, ts, stats, placed]
\* the copy c of the second member of a group, made for valid metadata
preserved_copy(st, m, c, duplicate_path) ==
    [o |-> c.o, ts |-> c.ts,
     stats |-> IF c.result THEN Add(m.stats, "duplicate_files_preserved", 1) ELSE m.stats,
     placed |-> Append(st.placed, [id |-> duplicate_path, area |-> "side",
                                   path |-> c.target, ok |-> c.result])]

\* the second member of a group, with its metadata m
preserved_second(st, m, duplicate_path, tree, dry) ==
    IF m.meta.is_valid
    THEN preserved_copy(st, m,
                        copy_duplicate_photo(st.o, st.ts, dry,
                                             PhotoPath(tree, SourceDir, duplicate_path),
                                             m.meta, DuplicatesDir),
                        duplicate_path)
    ELSE [st EXCEPT !.stats = m.stats]

\* the members from the third on are counted as discarded
preserved_discarded(st, paths) ==
    IF Len(paths) > 2
    THEN [st EXCEPT !.stats = Add(@, "duplicate_files_discarded", Len(paths) - 2)]
    ELSE st

preserved_group(st, paths, tree, dry) ==
    IF Len(paths) <= 1 THEN st
    ELSE preserved_discarded(
             preserved_second(st,
                              process_photo_file(st.o.files, st.stats, tree, SourceDir,
                                                 paths[2]),
                              paths[2], tree, dry),
             paths)

RECURSIVE preserved_loop(_, _, _, _)
preserved_loop(st, groups, tree, dry) ==
    IF groups = <<>> THEN st
    ELSE preserved_loop(preserved_group(st, Head(groups).paths, tree, dry),
                        Tail(groups), tree, dry)

process_preserved_duplicates(st, groups, tree, dry) ==
    IF groups = <<>> THEN st
    ELSE preserved_loop(
             IF dry THEN st
             ELSE [st EXCEPT !.o.dirs = @ \cup {TargetDir, ExportDir, DuplicatesDir}],
             groups, tree, dry)

\* run_export: after the loop, the side-area of preserve_duplicates
ProcessPreservedDuplicates ==
    /\ pc = "place"
    /\ next_result > Len(batch_results)
    /\ LET st == [o |-> [files |-> files, dirs |-> dirs, writes |-> writes],
                  ts |-> file_timestamps, stats |-> stats, placed |-> placed]
           r == IF strategy = "preserve_duplicates" /\ duplicates_to_preserve # <<>>
                THEN process_preserved_duplicates(st, duplicates_to_preserve, src,
                                                  is_dry_run)
                ELSE st
       IN  /\ files' = r.o.files
           /\ dirs' = r.o.dirs
           /\ writes' = r.o.writes
           /\ file_timestamps' = r.ts
           /\ stats' = r.stats
           /\ placed' = r.placed
    /\ pc' = "finish"
    /\ UNCHANGED <<inputs, photo_files, duplicates, hstats, duplicates_to_preserve,
                   batch_results, next_result>>

\* PhotoExporter._save_export_metadata
save_export_metadata(fs, dry) ==
    IF dry THEN fs
    ELSE fs \cup {Path(TargetDir, MetadataName), Path(TargetDir, SummaryName)}

\* PhotoExporter._save_performance_metrics
save_performance_metrics(fs, ds) ==
    IF TargetDir \in ds
    THEN fs \cup {Path(TargetDir, MetricsName), Path(TargetDir, AnalysisName)}
    ELSE fs

\* run_export: the end of the run
FinishRun ==
    /\ pc = "finish"
    /\ files' = save_performance_metrics(save_export_metadata(files, is_dry_run), dirs)
    /\ pc' = "done"
    /\ UNCHANGED <<inputs, photo_files, duplicates, file_timestamps, dirs, stats, hstats,
                   duplicates_to_preserve, batch_results, next_result, placed, writes>>

Next ==
    \/ HandleDeleteDuplicatesFromOutput
    \/ DeleteDuplicatesFromOutput
    \/ DeleteDuplicatesFromSource
    \/ CreateExportDirectory
    \/ CleanupDuplicatesFolder
    \/ ScanSource
    \/ HandleDuplicates
    \/ CheckDiskSpace
    \/ ExtractMetadata
    \/ PlaceResult
    \/ ProcessPreservedDuplicates
    \/ FinishRun

Spec == Init /\ [][Next]_vars

----------------------------------------------------------------------------
(* Specification of a preserve_duplicates run over a single duplicate group *)

GroupSizes == 2..MaxGroup

KeyClasses == {{p \in Profiles : composite_key(p) = composite_key(q)} : q \in Profiles}

InitPreserve ==
    /\ strategy = "preserve_duplicates"
    /\ \E class \in KeyClasses, n \in GroupSizes :
          \E ps \in [1..n -> class] : src = MkTree(ps)
    /\ out = <<>>
    /\ files = TreeFiles(src, SourceDir)
    /\ dirs = {SourceDir, TargetDir}
    /\ FreshRun

NextPreserve ==
    \/ CreateExportDirectory
    \/ ScanSource
    \/ HandleDuplicates
    \/ CheckDiskSpace
    \/ ExtractMetadata
    \/ PlaceResult
    \/ ProcessPreservedDuplicates
    \/ FinishRun

SpecPreserve == InitPreserve /\ [][NextPreserve]_vars

----------------------------------------------------------------------------
(* Specification of the conflict resolvers over a target directory in      *)
(* which the wanted name and some of its numbered variants are taken.      *)
(* writes records the path asked for, placed the path returned.            *)
MaxConflicts == 4
ManyConflicts == 999

ConflictTargets ==
    {Path(YearDir(y), GenName(y, 0, <<0, 0, 1>>, ext)) :
        y \in {2023, 2024}, ext \in {"jpg", "mov", "heic"}}

\* <stem>-{counter:03d}<ext>
Numbered(target_path, n) == [target_path EXCEPT !.name.conf = zfill(str(n), 3)]

TakenCounters == (SUBSET (1..MaxConflicts)) \cup {1..ManyConflicts}

InitConflict ==
    /\ pc = "conflict_input"
    /\ IdleDate
    /\ src = <<>>
    /\ photo_files = <<>>
    /\ duplicates = <<>>
    /\ file_timestamps = NoTimestamps
    /\ gen_log = <<>>
    /\ strategy = "keep_first"
    /\ is_dry_run = FALSE
    /\ out = <<>>
    /\ dirs = {TargetDir, ExportDir} \cup {YearDir(y) : y \in {2023, 2024}}
    /\ stats = ZeroStats
    /\ hstats = ZeroDuplicateStats
    /\ duplicates_to_preserve = <<>>
    /\ batch_results = <<>>
    /\ next_result = 1
    /\ placed = <<>>
    /\ aae_result = NoPath
    /\ available_bytes = 0
    /\ process = NoProcess
    /\ monitor = NoMonitor
    /\ \E target_path \in ConflictTargets, taken \in BOOLEAN, ns \in TakenCounters :
          /\ writes = <<[path |-> target_path, existed |-> taken, id |-> 0,
                         kind |-> "target"]>>
          /\ files = (IF taken THEN {target_path} ELSE {})
                         \cup {Numbered(target_path, n) : n \in ns}
    /\ files0 = files
    /\ dirs0 = dirs

ConflictUnchanged ==
    UNCHANGED <<datevars, src, photo_files, duplicates, file_timestamps, gen_log, strategy,
                is_dry_run, out, files, dirs, files0, dirs0, stats, hstats,
                duplicates_to_preserve, batch_results, next_result, writes, aae_result,
                available_bytes, process, monitor>>

ResolveFilenameConflict ==
    /\ pc = "conflict_input"
    /\ placed' = <<[id |-> 0, area |-> "file_organizer",
                    path |-> resolve_filename_conflict(files, writes[1].path),
                    ok |-> TRUE]>>
    /\ pc' = "conflict_resolved"
    /\ ConflictUnchanged

GenerateUniqueFilename ==
    /\ pc = "conflict_input"
    /\ placed' = <<[id |-> 0, area |-> "file_utils",
                    path |-> Path(writes[1].path.dir,
                                  generate_unique_filename(files, writes[1].path.dir,
                                                           writes[1].path.name)),
                    ok |-> TRUE]>>
    /\ pc' = "conflict_resolved"
    /\ ConflictUnchanged

NextConflict == ResolveFilenameConflict \/ GenerateUniqueFilename

SpecConflict == InitConflict /\ [][NextConflict]_vars

----------------------------------------------------------------------------
(* Specification of a run over a source directory whose entries may be     *)
(* symbolic links that resolve outside the source directory.               *)
MaxLinkFiles == 2

LinkProfiles ==
    { [p EXCEPT !.resolves = r] :
        p \in { Profile("jpg", 1, NoDate, "none", NoDate, "none", D0),
                Profile("jpg", 2, D0, "stem", D0, "none", D2),
                Profile("jpg", 2, ErrDate, "none", NoDate, "none", D0) },
        r \in Resolutions }

InitLinks ==
    /\ strategy \in {"keep_first", "preserve_duplicates"}
    /\ \E ps \in SeqsUpTo(LinkProfiles, MaxLinkFiles) : src = MkTree(ps)
    /\ out = <<>>
    /\ files = TreeFiles(src, SourceDir)
    /\ dirs = {SourceDir, TargetDir}
    /\ FreshRun

NextLinks ==
    \/ CreateExportDirectory
    \/ ScanSource
    \/ HandleDuplicates
    \/ CheckDiskSpace
    \/ ExtractMetadata
    \/ PlaceResultNoError
    \/ ProcessPreservedDuplicates
    \/ FinishRun

SpecLinks == InitLinks /\ [][NextLinks]_vars

----------------------------------------------------------------------------
(* Specification of a keep_first run over a source with more than one      *)
(* batch, on a file system without I/O errors                              *)

\* the files in between have a date with milliseconds and contents of their own
BatchFiller == Profile("mov", 1, NoDate, "none", NoDate, "none", D1)

BatchTree(first, last) ==
    [i \in 1..MaxBatchFiles |->
        [(IF i = 1 THEN first ELSE IF i = MaxBatchFiles THEN last ELSE BatchFiller)
            EXCEPT !.stem = StemAt(i), !.hash = i]]

InitBatch ==
    /\ strategy = "keep_first"
    /\ \E first \in Profiles, last \in Profiles : src = BatchTree(first, last)
    /\ out = <<>>
    /\ files = TreeFiles(src, SourceDir)
    /\ dirs = {SourceDir, TargetDir}
    /\ FreshRun

NextBatch ==
    \/ CreateExportDirectory
    \/ ScanSource
    \/ HandleDuplicates
    \/ CheckDiskSpace
    \/ ExtractMetadata
    \/ PlaceResultNoError
    \/ ProcessPreservedDuplicates
    \/ FinishRun

SpecBatch == InitBatch /\ [][NextBatch]_vars

----------------------------------------------------------------------------
(* Specification of the extraction phase with its batch tasks as threads:  *)
(* each step of a task is one access to the global PerformanceMonitor made *)
(* by the timed_operation wrapper of _process_photo_worker.                *)

\* ThreadPoolExecutor.submit of one _process_batch per batch
NewTask == [at |-> "queued", k |-> 1, seen |-> 0, results |-> <<>>]

Tasks == 1..Len(monitor.task)

TaskBatch(t) ==
    Batch(photo_files,
          batch_size(Cardinality({f \in files : f.dir = SourceDir}), Len(photo_files)), t)

InWorker(t) == monitor.task[t].at \notin {"queued", "done"}

MonitorUnchanged ==
    UNCHANGED <<pc, datevars, src, photo_files, duplicates, file_timestamps, gen_log,
                strategy, is_dry_run, out, files, dirs, files0, dirs0, stats, hstats,
                duplicates_to_preserve, batch_results, next_result, placed, writes,
                aae_result, available_bytes, process>>

InitMonitor ==
    /\ strategy = "keep_first"
    /\ src = BatchTree(BatchFiller, BatchFiller)
    /\ out = <<>>
    /\ files = TreeFiles(src, SourceDir)
    /\ dirs = {SourceDir, TargetDir}
    /\ FreshRun
    /\ ~is_dry_run

\* _process_files_in_batches: the batches are submitted to the executor
SubmitBatches ==
    /\ pc = "extract"
    /\ monitor.task = <<>>
    /\ photo_files # <<>>
    /\ LET size == batch_size(Cardinality({f \in files : f.dir = SourceDir}),
                              Len(photo_files))
       IN  monitor' = [monitor EXCEPT
                          !.task = [t \in 1..NumBatches(Len(photo_files), size) |-> NewTask]]
    /\ MonitorUnchanged

\* a free executor thread takes the next queued batch
RunBatch(t) ==
    /\ pc = "extract"
    /\ monitor.task[t].at = "queued"
    /\ \A u \in 1..(t - 1) : monitor.task[u].at # "queued"
    /\ Cardinality({u \in Tasks : InWorker(u)}) < Workers
    /\ monitor' = [monitor EXCEPT !.task[t].at = "start"]
    /\ MonitorUnchanged

\* PerformanceMonitor.start_operation: self.current_operations[operation] = timing
StartOperation(t) ==
    /\ pc = "extract"
    /\ monitor.task[t].at = "start"
    /\ monitor' = [monitor EXCEPT !.current_operations = t, !.task[t].at = "read"]
    /\ MonitorUnchanged

\* start_operation: self.total_operations += 1, the load
LoadTotalOperations(t) ==
    /\ pc = "extract"
    /\ monitor.task[t].at = "read"
    /\ monitor' = [monitor EXCEPT !.task[t].seen = monitor.total_operations,
                                   !.task[t].at = "write"]
    /\ MonitorUnchanged

\* start_operation: self.total_operations += 1, the store
StoreTotalOperations(t) ==
    /\ pc = "extract"
    /\ monitor.task[t].at = "write"
    /\ monitor' = [monitor EXCEPT !.total_operations = monitor.task[t].seen + 1,
                                   !.task[t].at = "func"]
    /\ MonitorUnchanged

\* timed_operation wrapper: result = func(*args, **kwargs)
WorkerBody(t) ==
    /\ pc = "extract"
    /\ monitor.task[t].at = "func"
    /\ monitor' = [monitor EXCEPT !.task[t].at = "check"]
    /\ MonitorUnchanged

\* _process_batch: the result of one file is appended, the loop goes on, and
\* a task that has done its batch is completed
append_result(m, t, ok) ==
    LET last == m.task[t].k = Len(TaskBatch(t))
    IN  [m EXCEPT !.task[t].results = Append(@, ok),
                  !.task[t].k = @ + 1,
                  !.task[t].at = IF last THEN "done" ELSE "start",
                  !.completed = IF last THEN Append(@, t) ELSE @]

\* PerformanceMonitor.finish_operation: 'if operation not in
\* self.current_operations' warns and returns
FinishOperationCheck(t) ==
    /\ pc = "extract"
    /\ monitor.task[t].at = "check"
    /\ monitor' = IF monitor.current_operations = 0
                  THEN append_result(monitor, t, TRUE)
                  ELSE [monitor EXCEPT !.task[t].at = "pop"]
    /\ MonitorUnchanged

\* finish_operation: self.current_operations.pop(operation) and the append
\* to operation_timings; a KeyError of pop leaves the wrapper (whose second
\* finish_operation finds no operation) and _process_batch appends None
FinishOperationPop(t) ==
    /\ pc = "extract"
    /\ monitor.task[t].at = "pop"
    /\ monitor' = IF monitor.current_operations = 0
                  THEN append_result(monitor, t, FALSE)
                  ELSE append_result([monitor EXCEPT !.current_operations = 0,
                                                     !.operation_timings = @ + 1],
                                     t, TRUE)
    /\ MonitorUnchanged

\* the results of the tasks in completion order; None has no valid metadata
RECURSIVE collect(_, _, _)
collect(m, tree, c) ==
    IF c > Len(m.completed) THEN <<>>
    ELSE LET t == m.completed[c]
             batch == TaskBatch(t)
         IN  [k \in 1..Len(batch) |->
                 IF m.task[t].results[k]
                 THEN process_photo_worker(files, tree, SourceDir, batch[k])
                 ELSE Metadata(batch[k], NoDate, "none", tree[batch[k]].ext, FALSE)]
             \o collect(m, tree, c + 1)

\* _process_files_in_batches: as_completed has yielded every future
CollectResults ==
    /\ pc = "extract"
    /\ monitor.task # <<>>
    /\ \A t \in Tasks : monitor.task[t].at = "done"
    /\ batch_results' = collect(monitor, src, 1)
    /\ next_result' = 1
    /\ pc' = "place"
    /\ UNCHANGED <<inputs, photo_files, duplicates, file_timestamps, files, dirs, stats,
                   hstats, duplicates_to_preserve, placed, writes>>

NextMonitor ==
    \/ CreateExportDirectory
    \/ ScanSource
    \/ HandleDuplicates
    \/ CheckDiskSpace
    \/ SubmitBatches
    \/ \E t \in Tasks : RunBatch(t)
    \/ \E t \in Tasks : StartOperation(t)
    \/ \E t \in Tasks : LoadTotalOperations(t)
    \/ \E t \in Tasks : StoreTotalOperations(t)
    \/ \E t \in Tasks : WorkerBody(t)
    \/ \E t \in Tasks : FinishOperationCheck(t)
    \/ \E t \in Tasks : FinishOperationPop(t)
    \/ CollectResults

SpecMonitor == InitMonitor /\ [][NextMonitor]_vars

----------------------------------------------------------------------------
(* Specification of a run that chooses between streaming and batch         *)
(* extraction.  The code streams above 1000 photo files and clears the     *)
(* preserved duplicates above 1000 groups; both limits are scaled down to  *)
(* LargeDataset here, and the sources hold more groups than that.          *)
LargeDataset == 1
MaxStreamGroups == 2

memory_optimization_enabled == TRUE

\* run_export: use_streaming
use_streaming(n_files) == n_files > LargeDataset /\ memory_optimization_enabled

\* PhotoExporter._optimize_memory_usage: the file cache holds no state of the
\* model; the dictionary of preserved duplicates is cleared when large
optimize_memory_usage(to_preserve) ==
    IF ~memory_optimization_enabled THEN to_preserve
    ELSE IF Len(to_preserve) > LargeDataset THEN <<>>
    ELSE to_preserve

stream_batch_size(n_files) == Min(50, Max(10, n_files \div 10))

\* PhotoExporter._stream_process_files: the batches are processed one after
\* the other in the calling thread, and memory is optimized after each
stream_process_files(fs, tree, list, to_preserve) ==
    [results |-> [k \in 1..Len(list) |-> process_photo_worker(fs, tree, SourceDir, list[k])],
     to_preserve |-> IF NumBatches(Len(list), stream_batch_size(Len(list))) >= 1
                     THEN optimize_memory_usage(to_preserve)
                     ELSE to_preserve]

StreamFiles == {BatchFiller, Profile("jpg", 1, D0, "none", NoDate, "none", D0)}

\* n_groups pairs of files with one composite key each, and n_single more
StreamTree(p, n_groups, n_single) ==
    [i \in 1..(2 * n_groups + n_single) |->
        [p EXCEPT !.stem = StemAt(i), !.hash = (i + 1) \div 2]]

InitStream ==
    /\ strategy \in {"keep_first", "preserve_duplicates"}
    /\ \E p \in StreamFiles, n_groups \in 0..MaxStreamGroups, n_single \in 0..1 :
          src = StreamTree(p, n_groups, n_single)
    /\ out = <<>>
    /\ files = TreeFiles(src, SourceDir)
    /\ dirs = {SourceDir, TargetDir}
    /\ FreshRun

\* run_export: the streaming branch
StreamExtract ==
    /\ pc = "extract"
    /\ use_streaming(Len(photo_files))
    /\ LET r == stream_process_files(files, src, photo_files, duplicates_to_preserve)
       IN  /\ batch_results' = r.results
           /\ duplicates_to_preserve' = r.to_preserve
    /\ next_result' = 1
    /\ pc' = "place"
    /\ UNCHANGED <<inputs, photo_files, duplicates, file_timestamps, files, dirs, stats,
                   hstats, placed, writes>>

\* run_export: the batch branch
BatchExtract ==
    /\ ~use_streaming(Len(photo_files))
    /\ ExtractMetadata

NextStream ==
    \/ CreateExportDirectory
    \/ ScanSource
    \/ HandleDuplicates
    \/ CheckDiskSpace
    \/ StreamExtract
    \/ BatchExtract
    \/ PlaceResultNoError
    \/ ProcessPreservedDuplicates
    \/ FinishRun

SpecStream == InitStream /\ [][NextStream]_vars

----------------------------------------------------------------------------
(* Specification of the AAE locators *)

AaeStems == {"IMG_1", "IMG_E1", "1470", "a"}

AaePhoto(stem) == [Profile("heic", 1, NoDate, "none", NoDate, "none", D0) EXCEPT !.stem = stem]

\* every AAE name the probes can build from the stem, in both cases
AaeCandidates(stem) ==
    {Path(SourceDir, SrcName(n, e)) :
        n \in {stem, "IMG_O1", "IMG_OE1", stem \o "O"}, e \in {"aae", "AAE"}}

InitAae ==
    /\ pc = "aae_input"
    /\ IdleDate
    /\ \E stem \in AaeStems :
          /\ src = <<AaePhoto(stem)>>
          /\ \E present \in SUBSET AaeCandidates(stem) :
                 files = {PhotoPath(src, SourceDir, 1)} \cup present
    /\ files0 = files
    /\ dirs = {SourceDir}
    /\ dirs0 = dirs
    /\ photo_files = <<1>>
    /\ duplicates = <<>>
    /\ file_timestamps = NoTimestamps
    /\ gen_log = <<>>
    /\ strategy = "keep_first"
    /\ is_dry_run = TRUE
    /\ out = <<>>
    /\ stats = ZeroStats
    /\ hstats = ZeroDuplicateStats
    /\ duplicates_to_preserve = <<>>
    /\ batch_results = <<>>
    /\ next_result = 1
    /\ placed = <<>>
    /\ writes = <<>>
    /\ aae_result = NoPath
    /\ available_bytes = 0
    /\ process = NoProcess
    /\ monitor = NoMonitor

AaeUnchanged ==
    UNCHANGED <<datevars, src, photo_files, duplicates, file_timestamps, gen_log, strategy,
                is_dry_run, out, files, dirs, files0, dirs0, stats, hstats,
                duplicates_to_preserve, batch_results, next_result, placed, writes,
                available_bytes, process, monitor>>

\* FileOrganizer._find_aae_file
FindAaeFile ==
    /\ pc = "aae_input"
    /\ aae_result' = find_aae_file(files, PhotoPath(src, SourceDir, 1))
    /\ pc' = "aae_found"
    /\ AaeUnchanged

\* find_aae_file of src/utils/file_utils.py
FileUtilsFindAaeFile ==
    /\ pc = "aae_input"
    /\ aae_result' = file_utils_find_aae_file(files, PhotoPath(src, SourceDir, 1))
    /\ pc' = "aae_found"
    /\ AaeUnchanged

NextAae == FindAaeFile \/ FileUtilsFindAaeFile

SpecAae == InitAae /\ [][NextAae]_vars

----------------------------------------------------------------------------
(* Specification of the command-line entry points around a keep_first run *)

MaxMainFiles == 2

\* main of src/main.py and main of src/core/export_photos.py
EntryPoints == {"main.py", "export_photos.py"}

InitMain ==
    /\ strategy = "keep_first"
    /\ src \in Trees(MaxMainFiles)
    /\ out = <<>>
    /\ files = TreeFiles(src, SourceDir)
    /\ dirs = {SourceDir, TargetDir}
    /\ FreshExporter
    /\ \E entry \in EntryPoints :
          process = [entry |-> entry, outcome |-> "running", exit_code |-> -1]

\* the positions of run_export at which the run is going on
Running == {"start", "created", "scanned", "resolved", "extract", "place", "finish"}

MainUnchanged ==
    UNCHANGED <<datevars, src, photo_files, duplicates, file_timestamps, gen_log, strategy,
                is_dry_run, out, files, dirs, files0, dirs0, stats, hstats,
                duplicates_to_preserve, batch_results, next_result, placed, writes,
                aae_result, available_bytes, monitor>>

\* what run_export returns when it completes: it has no return value
run_export_returns == "None"

\* bool(value) of 'if success:'
truthy(value) == value \notin {"None", "False"}

\* the exit code of an entry point for an outcome of the run
exit_code(entry, outcome) ==
    IF entry = "main.py"
    THEN IF outcome = "completed" THEN (IF truthy(run_export_returns) THEN 0 ELSE 1)
         ELSE IF outcome = "interrupted" THEN 130
         ELSE 1
    ELSE IF outcome = "completed" THEN 0 ELSE 1

Exits(outcome) ==
    /\ process.outcome = "running"
    /\ process' = [process EXCEPT !.outcome = outcome,
                                  !.exit_code = exit_code(process.entry, outcome)]
    /\ pc' = "exited"
    /\ MainUnchanged

\* main of src/main.py: validate_arguments returns False
RejectArguments ==
    /\ pc = "start"
    /\ process.entry = "main.py"
    /\ Exits("invalid_arguments")

\* the user interrupts the run: KeyboardInterrupt reaches the entry point
KeyboardInterrupt ==
    /\ pc \in Running
    /\ Exits("interrupted")

\* an exception leaves run_export and reaches the entry point
UnexpectedError ==
    /\ pc \in Running
    /\ Exits("error")

\* run_export returns to the entry point
MainReturns ==
    /\ pc \in {"done", "returned"}
    /\ Exits("completed")

NextMain ==
    \/ RejectArguments
    \/ KeyboardInterrupt
    \/ UnexpectedError
    \/ MainReturns
    \/ CreateExportDirectory
    \/ ScanSource
    \/ HandleDuplicates
    \/ CheckDiskSpace
    \/ ExtractMetadata
    \/ PlaceResult
    \/ ProcessPreservedDuplicates
    \/ FinishRun

SpecMain == InitMain /\ [][NextMain]_vars

----------------------------------------------------------------------------
(* C1: for every combination of optional EXIF date, optional XMP date and  *)
(* file date the chooser returns the earlier of EXIF and XMP when both are *)
(* present (tagged with its source, 'exif' on a tie), the only present one *)
(* when exactly one is present, and the file date tagged 'file' when       *)
(* neither is present.                                                     *)
C1_ChooseBestDate ==
    pc = "date_done" =>
        /\ (exif_date # NoDate /\ xmp_date # NoDate /\ DateLE(exif_date, xmp_date))
              => best_date = <<exif_date, "exif">>
        /\ (exif_date # NoDate /\ xmp_date # NoDate /\ ~DateLE(exif_date, xmp_date))
              => best_date = <<xmp_date, "xmp">>
        /\ (exif_date # NoDate /\ xmp_date # NoDate)
              => /\ DateLE(best_date[1], exif_date)
                 /\ DateLE(best_date[1], xmp_date)
                 /\ best_date[1] \in {exif_date, xmp_date}
        /\ (exif_date # NoDate /\ xmp_date = NoDate) => best_date = <<exif_date, "exif">>
        /\ (exif_date = NoDate /\ xmp_date # NoDate) => best_date = <<xmp_date, "xmp">>
        /\ (exif_date = NoDate /\ xmp_date = NoDate) => best_date = <<file_date, "file">>

C1_Witness ==
    /\ pc = "date_done"
    /\ exif_date # NoDate
    /\ exif_date = xmp_date
    /\ file_date # exif_date
    /\ best_date = <<exif_date, "exif">>

----------------------------------------------------------------------------
(* C2: when hashing succeeds for every input file, detect_duplicates       *)
(* returns exactly the classes of files with the same content and the same *)
(* type category that have at least two members: two files share a group   *)
(* iff content and category agree, no file is in two groups, no group has  *)
(* one member, and each group lists its members in input order.            *)
SameClass(i, j) ==
    /\ src[i].hash = src[j].hash
    /\ (src[i].ext \in IMAGE_FORMATS) = (src[j].ext \in IMAGE_FORMATS)
    /\ (src[i].ext \in VIDEO_FORMATS) = (src[j].ext \in VIDEO_FORMATS)

InGroup(k, i) == \E m \in 1..Len(duplicates[k].paths) : duplicates[k].paths[m] = i

C2_DetectDuplicates ==
    (pc = "dup_done" /\ \A i \in 1..Len(src) : src[i].hash_ok) =>
        /\ \A i, j \in 1..Len(src) :
              i # j => ((\E k \in 1..Len(duplicates) : InGroup(k, i) /\ InGroup(k, j))
                          <=> SameClass(i, j))
        /\ \A i \in 1..Len(src) : \A k1, k2 \in 1..Len(duplicates) :
              (InGroup(k1, i) /\ InGroup(k2, i)) => k1 = k2
        /\ \A k \in 1..Len(duplicates) :
              /\ Len(duplicates[k].paths) >= 2
              /\ \A m, n \in 1..Len(duplicates[k].paths) :
                    m < n => duplicates[k].paths[m] < duplicates[k].paths[n]

C2_Witness ==
    /\ pc = "dup_done"
    /\ \A i \in 1..Len(src) : src[i].hash_ok
    /\ Len(src) = 3
    /\ src[1].hash = src[2].hash /\ src[1].hash = src[3].hash
    /\ src[1].ext = "jpg" /\ src[2].ext = "mov" /\ src[3].ext = "jpg"
    /\ src[1].stem # src[3].stem
    /\ Len(duplicates) = 1
    /\ duplicates[1].paths = <<1, 3>>

----------------------------------------------------------------------------
(* C10 as stated: within one run, any two generate_filename calls whose    *)
(* timestamps truncate to the same second and that use the same extension  *)
(* return different filenames, with or without a sub-second part.          *)
C10_Original ==
    \A i, j \in 1..Len(gen_log) :
        (i < j /\ strftime(gen_log[i].date) = strftime(gen_log[j].date)
               /\ gen_log[i].ext = gen_log[j].ext)
            => gen_log[i].name # gen_log[j].name

(* C10 amended: within one run, any two generate_filename calls whose      *)
(* timestamps truncate to the same second, carry no sub-second part and    *)
(* use the same extension return different filenames.                      *)
C10_NoSubSecondInjective ==
    \A i, j \in 1..Len(gen_log) :
        (i < j /\ strftime(gen_log[i].date) = strftime(gen_log[j].date)
               /\ gen_log[i].date.us = 0 /\ gen_log[j].date.us = 0
               /\ gen_log[i].ext = gen_log[j].ext)
            => gen_log[i].name # gen_log[j].name

C10_Witness ==
    /\ Len(gen_log) = 3
    /\ gen_log[1].date.us = 0 /\ gen_log[3].date.us = 0 /\ gen_log[2].date.us = 1000
    /\ gen_log[1].date = gen_log[3].date
    /\ strftime(gen_log[2].date) = strftime(gen_log[1].date)
    /\ gen_log[1].ext = "jpg" /\ gen_log[2].ext = "jpg" /\ gen_log[3].ext = "jpg"
    /\ gen_log[1].name.mmm = <<0, 0, 1>>
    /\ gen_log[2].name.mmm = <<0, 0, 1>>
    /\ gen_log[3].name.mmm = <<0, 0, 2>>

----------------------------------------------------------------------------
(* Notions the claims about a run are stated with *)

Resolved == pc \notin {"start", "created", "scanned", "called"}

Members(g) == Range(duplicates[g].paths)

OtherMembers(g) == Range(Tail(duplicates[g].paths))

Groups == 1..Len(duplicates)

RECURSIVE SizeSum(_, _)
SizeSum(dups, less) ==
    IF dups = <<>> THEN 0 ELSE Len(Head(dups).paths) - less + SizeSum(Tail(dups), less)

Handed(id) == {k \in 1..Len(batch_results) : batch_results[k].id = id}

Placements(id, area) == {k \in 1..Len(placed) : placed[k].id = id /\ placed[k].area = area}

Written(id) == {k \in 1..Len(writes) : writes[k].id = id}

Untouched(id) ==
    /\ id \notin Range(photo_files)
    /\ Handed(id) = {}
    /\ Placements(id, "main") = {}
    /\ Written(id) = {}

(* C3: in a run with strategy keep_first, once the duplicates are resolved *)
(* the member at index 0 of every group is in the list handed to           *)
(* placement, exactly once, and is placed at most once; no other member of *)
(* the group is in that list, is handed to placement, is placed or is      *)
(* copied; the resolved count is the sum over the groups of size minus 1.  *)
C3_KeepFirst ==
    (strategy = "keep_first" /\ Resolved) =>
        /\ \A g \in Groups :
              /\ duplicates[g].paths[1] \in Range(photo_files)
              /\ pc \in {"place", "finish", "done"} =>
                    Cardinality(Handed(duplicates[g].paths[1])) = 1
              /\ pc \in {"finish", "done"} =>
                    Cardinality(Placements(duplicates[g].paths[1], "main")) =
                       (IF batch_results[CHOOSE k \in Handed(duplicates[g].paths[1]) : TRUE].is_valid
                        THEN 1 ELSE 0)
              /\ \A id \in OtherMembers(g) : Untouched(id)
        /\ stats.duplicate_files_resolved = SizeSum(duplicates, 1)
        /\ hstats.duplicate_files_resolved = SizeSum(duplicates, 1)

C3_Witness ==
    /\ strategy = "keep_first"
    /\ pc = "done"
    /\ ~is_dry_run
    /\ \E g \in Groups :
          /\ Len(duplicates[g].paths) = 3
          /\ \E k \in Placements(duplicates[g].paths[1], "main") :
                placed[k].ok /\ placed[k].path \in files
    /\ stats.duplicate_files_resolved = 2

(* C4: in a run with strategy skip_duplicates, once the duplicates are     *)
(* resolved no member of any group, index 0 included, is in the list       *)
(* handed to placement, is placed or is copied, and the skipped-duplicates *)
(* statistic is the sum of the sizes of all groups, up to the end of the   *)
(* run.                                                                    *)
C4_SkipDuplicates ==
    (strategy = "skip_duplicates" /\ Resolved) =>
        /\ \A g \in Groups : \A id \in Members(g) : Untouched(id)
        /\ stats.files_skipped_duplicates = SizeSum(duplicates, 0)

C4_Witness ==
    /\ strategy = "skip_duplicates"
    /\ pc = "done"
    /\ ~is_dry_run
    /\ Len(duplicates) = 1
    /\ Len(duplicates[1].paths) = 2
    /\ Len(placed) = 1
    /\ placed[1].ok
    /\ stats.files_skipped_duplicates = 2

(* C5: at the end of a preserve_duplicates run over a single group of N    *)
(* files whose dates can all be extracted, index 0 is the one member       *)
(* placed in the main tree, index 1 is the one member placed in the        *)
(* side-area, the other N-2 members are copied nowhere, and the statistics *)
(* report 1 preserved and N-2 discarded duplicates.                        *)
C5_PreserveCounts ==
    (/\ pc = "done"
     /\ ~is_dry_run
     /\ Len(duplicates) = 1
     /\ Len(duplicates[1].paths) = Len(src)
     /\ \A i \in 1..Len(src) : src[i].exif # ErrDate /\ src[i].xmpdate # ErrDate) =>
        /\ {placed[k].id : k \in {j \in 1..Len(placed) : placed[j].area = "main"}}
              = {duplicates[1].paths[1]}
        /\ {placed[k].id : k \in {j \in 1..Len(placed) : placed[j].area = "side"}}
              = {duplicates[1].paths[2]}
        /\ \A k \in 1..Len(placed) : placed[k].ok
        /\ \A i \in 3..Len(src) : Written(duplicates[1].paths[i]) = {}
        /\ stats.duplicate_files_preserved = 1
        /\ stats.duplicate_files_discarded = Len(src) - 2

(* C6: after a run with strategy !delete! and dry-run off, of every        *)
(* duplicate group of the export tree the member at index 0 exists, no     *)
(* other member exists and no XMP or AAE file of another member exists.    *)
C6_DeleteRun ==
    (strategy = "!delete!" /\ ~is_dry_run /\ pc \in {"returned", "raised"}) =>
        LET dups == detect_duplicates(out, Ids(out))
        IN  \A g \in 1..Len(dups) :
               /\ PhotoPath(out, OldExportDir, dups[g].paths[1]) \in files
               /\ \A id \in Range(Tail(dups[g].paths)) :
                     /\ PhotoPath(out, OldExportDir, id) \notin files
                     /\ SidecarPaths(out, OldExportDir, id) \cap files = {}

(* C7: in dry-run mode, with strategy !delete!, the files of the source    *)
(* tree and of the target tree (primary files, XMP and AAE sidecars) are   *)
(* in every reachable state the files that existed before the run.         *)
C7_DryDeleteKeepsFiles ==
    (strategy = "!delete!" /\ is_dry_run) => (files = files0 /\ dirs = dirs0)

C7_Witness ==
    /\ strategy = "!delete!"
    /\ is_dry_run
    /\ pc = "called"
    /\ out # <<>>
    /\ Len(duplicates) = 1
    /\ Len(duplicates[1].paths) = 3
    /\ \E id \in OtherMembers(1) : SidecarPaths(out, OldExportDir, id) # {}
    /\ files = files0

(* C8: in dry-run mode, under any strategy, every reachable state of       *)
(* run_export has the files and the directories that existed before the    *)
(* run, in the target directory and in the source tree.                    *)
C8_DryRunNoMutation ==
    is_dry_run => (files = files0 /\ dirs = dirs0)

(* C9: in run mode every file the organizer writes (primary file, renamed  *)
(* XMP or AAE sidecar) is written to a path at which no file existed       *)
(* immediately before the write.                                           *)
C9_CollisionFree ==
    ~is_dry_run => \A k \in 1..Len(writes) : ~writes[k].existed

----------------------------------------------------------------------------
(* Notions the claims about generated names are stated with *)

\* the number of calls up to log entry i made for the second of entry i
\* with a timestamp without sub-second part
RECURSIVE CallsForSecond(_, _)
CallsForSecond(i, j) ==
    IF j = 0 THEN 0
    ELSE CallsForSecond(i, j - 1)
         + (IF strftime(gen_log[j].date) = strftime(gen_log[i].date)
               /\ gen_log[j].date.us = 0
            THEN gen_log[j].calls ELSE 0)

\* n written as exactly three zero-padded digits
ThreeDigits(n) == <<(n \div 100) % 10, (n \div 10) % 10, n % 10>>

ExpectedName(i, digits) ==
    [s |-> "", year |-> gen_log[i].date.year, sec |-> gen_log[i].date.sec,
     mmm |-> digits, conf |-> <<>>, inner |-> "", ext |-> gen_log[i].ext]

(* C11 as stated: the k-th call of a run for a second, made with a         *)
(* timestamp without sub-second part, returns YYYYMMDD-HHMMSS-kkk.ext with *)
(* k written as exactly three zero-padded digits, for every k; a call with *)
(* milliseconds returns them as the three digits.                          *)
C11_Original ==
    \A i \in 1..Len(gen_log) :
        IF gen_log[i].date.us = 0
        THEN gen_log[i].name = ExpectedName(i, ThreeDigits(CallsForSecond(i, i)))
        ELSE gen_log[i].name = ExpectedName(i, ThreeDigits(gen_log[i].date.us \div 1000))

(* C11 amended: the k-th call of a run for a second, made with a timestamp *)
(* without sub-second part, returns YYYYMMDD-HHMMSS-kkk.ext with k as      *)
(* three zero-padded digits as long as k is at most 999; the count is per  *)
(* second, is not advanced by calls for other seconds nor by calls with    *)
(* milliseconds, which return their milliseconds as the three digits.      *)
C11_CounterFormat ==
    \A i \in 1..Len(gen_log) :
        IF gen_log[i].date.us = 0
        THEN CallsForSecond(i, i) <= 999 =>
                gen_log[i].name = ExpectedName(i, ThreeDigits(CallsForSecond(i, i)))
        ELSE gen_log[i].name = ExpectedName(i, ThreeDigits(gen_log[i].date.us \div 1000))

C11_Witness ==
    /\ Len(gen_log) = 3
    /\ \A i \in 1..3 : gen_log[i].calls = 1 /\ gen_log[i].ext = "mov"
    /\ gen_log[1].date.us = 0 /\ gen_log[2].date.us = 0 /\ gen_log[3].date.us = 0
    /\ gen_log[1].date = gen_log[3].date
    /\ gen_log[2].date.sec # gen_log[1].date.sec
    /\ gen_log[1].name.mmm = <<0, 0, 1>>
    /\ gen_log[2].name.mmm = <<0, 0, 1>>
    /\ gen_log[3].name.mmm = <<0, 0, 2>>

\* The state of the file system when the placement loop starts
PlacementStart ==
    [files |-> files0 \cup {Path(TargetDir, LogName(is_dry_run))},
     dirs |-> dirs0 \cup {TargetDir} \cup (IF is_dry_run THEN {} ELSE {ExportDir}),
     writes |-> <<>>]

\* The source -> output mapping of the run whose batches complete in the
\* order in which they were submitted
RECURSIVE SubmissionOrderMapping(_, _, _)
SubmissionOrderMapping(o, ts, k) ==
    IF k > Len(photo_files) THEN {}
    ELSE LET metadata == process_photo_worker(PlacementStart.files, src, SourceDir,
                                              photo_files[k])
             r == process_photo(o, ts, is_dry_run, src, metadata, "none")
         IN  (IF metadata.is_valid THEN {[id |-> metadata.id, path |-> r.target]} ELSE {})
             \cup SubmissionOrderMapping(r.o, r.ts, k + 1)

PlacedMapping == {[id |-> placed[k].id, path |-> placed[k].path] : k \in 1..Len(placed)}

(* C12: a finished keep_first run maps every source file to the same output *)
(* path as the run over the same source whose batches complete in          *)
(* submission order: the mapping does not depend on the order in which the *)
(* worker batches complete.                                                *)
C12_Deterministic ==
    (pc = "done" /\ strategy = "keep_first")
        => PlacedMapping = SubmissionOrderMapping(PlacementStart, NoTimestamps, 1)

\* The results the placement loop has gone through, and those among them
\* that the worker marked invalid
Looped == 1..(next_result - 1)

InvalidLooped == {k \in Looped : ~batch_results[k].is_valid}

FailedCopies == {k \in 1..Len(placed) : placed[k].area = "main" /\ ~placed[k].ok}

GoodCopies == {k \in 1..Len(placed) : placed[k].area = "main" /\ placed[k].ok}

(* C13: while the placement loop runs, every file whose copy failed (the   *)
(* primary copy or a sidecar copy raised) is counted exactly once in       *)
(* failed_exports and not in successful_exports: failed_exports is the     *)
(* number of invalid records plus the number of failed copies, and         *)
(* successful_exports the number of copies that succeeded.                 *)
C13_CopyFailureCounted ==
    pc = "place"
        => /\ stats.failed_exports = Cardinality(InvalidLooped) + Cardinality(FailedCopies)
           /\ stats.successful_exports = Cardinality(GoodCopies)

\* The source files whose EXIF extraction is attempted and fails
ExifFails(id) ==
    /\ src[id].ext \in SUPPORTED_IMAGE_FORMATS
    /\ extract_exif_date(src[id]) = ErrDate

\* The date of file id chosen without an EXIF result
FallbackDate(id) ==
    choose_best_date(NoDate, extracted_dates(files0, src, SourceDir, id).xmp, src[id].fdate)

(* C14: the metadata record of a supported image whose EXIF extraction     *)
(* fails is valid and carries the date chosen from the XMP date and the    *)
(* file date, and once the placement loop has gone through the record the  *)
(* file has been placed.                                                   *)
C14_ExifFailureKeepsValid ==
    \A k \in 1..Len(batch_results) :
        (ExifFails(batch_results[k].id)
         /\ extracted_dates(files0, src, SourceDir, batch_results[k].id).xmp # ErrDate)
            => /\ batch_results[k].is_valid
               /\ batch_results[k].creation_date = FallbackDate(batch_results[k].id)[1]
               /\ batch_results[k].date_source = FallbackDate(batch_results[k].id)[2]
               /\ k \in Looped => Placements(batch_results[k].id, "main") # {}

\* The placement loop is at an invalid record and goes through it
LoopsInvalid ==
    /\ pc = "place"
    /\ next_result <= Len(batch_results)
    /\ ~batch_results[next_result].is_valid
    /\ next_result' = next_result + 1

(* C15: every metadata record with is_valid = false has no creation        *)
(* timestamp, and the iteration of the placement loop over it counts it    *)
(* once as processed and once as a failed export, does not count it as     *)
(* successful, and hands nothing to placement: no name is generated and no *)
(* file is copied.                                                         *)
C15_InvalidRecord ==
    /\ [](\A k \in 1..Len(batch_results) :
            ~batch_results[k].is_valid => batch_results[k].creation_date = NoDate)
    /\ [][LoopsInvalid =>
            /\ stats' = Add(Add(Add(stats, "total_files_processed", 1),
                                 "photos_processed", 1), "failed_exports", 1)
            /\ UNCHANGED <<files, dirs, writes, file_timestamps, placed>>]_vars

C15_Witness ==
    /\ pc = "place"
    /\ \E k \in Looped : ~batch_results[k].is_valid
    /\ stats.failed_exports = Cardinality(InvalidLooped)
    /\ InvalidLooped # {}

SupportedStrategies ==
    {"keep_first", "skip_duplicates", "preserve_duplicates", "cleanup_duplicates", "!delete!"}

\* What strategy keep_first makes of the duplicate groups of the run
AsKeepFirst ==
    handle_keep_first(duplicates,
                      [ZeroDuplicateStats EXCEPT !.duplicate_files_found = Len(duplicates)])

(* C16: in a run with a strategy string that is none of the five supported *)
(* strategies, the resolution of the duplicates does not raise, and it     *)
(* leaves the list of files to place, the duplicate statistics and the run *)
(* statistics that keep_first yields for the same groups; the resolution   *)
(* of a single group returns what it returns for keep_first.               *)
C16_UnknownStrategy ==
    (strategy \notin SupportedStrategies /\ Resolved /\ duplicates # <<>>)
        => /\ pc # "raised"
           /\ photo_files = remove_all(Ids(src), Range(all_duplicate_files(duplicates)))
                                 \o AsKeepFirst.files
           /\ hstats = AsKeepFirst.hstats
           /\ duplicates_to_preserve = <<>>
           /\ stats = update_duplicate_stats(stats, AsKeepFirst.hstats)
           /\ \A g \in Groups :
                  resolve_duplicates(strategy, duplicates[g].paths)
                      = resolve_duplicates("keep_first", duplicates[g].paths)

C16_Witness ==
    /\ strategy \notin SupportedStrategies
    /\ pc = "resolved"
    /\ \E g \in Groups : Len(duplicates[g].paths) > 1
    /\ hstats.duplicate_files_resolved > 0
    /\ Len(photo_files) < Len(src)

\* The duplicates_<timestamp> directories under the target, of this run or
\* of an earlier one
SideAreaKinds == {"duplicates", "duplicates_old"}

(* C17: when a run with strategy cleanup_duplicates and dry-run off has    *)
(* returned, no duplicates_<timestamp> directory of an earlier run is left *)
(* under the target directory, and no file in one.                         *)
C17_CleanupRemoves ==
    (strategy = "cleanup_duplicates" /\ ~is_dry_run /\ pc = "returned")
        => /\ \A d \in dirs : d.kind \notin SideAreaKinds
           /\ \A f \in files : f.dir.kind \notin SideAreaKinds

\* The year of the resolved timestamp of source file id
ResolvedYear(id) == process_photo_worker(files0, src, SourceDir, id).creation_date.year

\* The sidecar copies made for the placement at index k end in the directory
\* of the primary file under the stem of its final name
SidecarsBeside(k) ==
    \A w \in 1..Len(writes) :
        (writes[w].id = placed[k].id /\ writes[w].kind \in {"xmp", "aae"})
            => writes[w].path = with_suffix(placed[k].path, writes[w].kind)

ResolvedDay(id) == DayOf(process_photo_worker(files0, src, SourceDir, id).creation_date)

RunModeStart ==
    [files |-> files0 \cup {Path(TargetDir, LogName(FALSE))},
     dirs |-> dirs0 \cup {TargetDir, ExportDir},
     writes |-> <<>>]

\* The placements of the real run that goes through the same records in the
\* same order and in which no copy raises
RECURSIVE RunModePlacements(_, _, _)
RunModePlacements(o, ts, k) ==
    IF k > Len(batch_results) THEN {}
    ELSE LET r == process_photo(o, ts, FALSE, src, batch_results[k], "none")
         IN  (IF batch_results[k].is_valid
              THEN {[id |-> batch_results[k].id, path |-> r.target, ok |-> r.result]}
              ELSE {})
             \cup RunModePlacements(r.o, r.ts, k + 1)

MainPlacements ==
    {[id |-> placed[k].id, path |-> placed[k].path, ok |-> placed[k].ok] :
        k \in {j \in 1..Len(placed) : placed[j].area = "main"}}

(* C19: a finished dry run has given every file it went through the final  *)
(* target path and the result that the real run over the same source tree  *)
(* and the same target contents gives it.                                  *)
C19_DrySameAsRun ==
    (is_dry_run /\ pc = "done")
        => MainPlacements = RunModePlacements(RunModeStart, NoTimestamps, 1)

\* The photo of the locator specification, its stem S and directory D
AaeSubject == PhotoPath(src, SourceDir, 1)

Sibling(stem, ext) == Path(AaeSubject.dir, SrcName(stem, ext))

\* S has the form IMG_<digits>
IMG_digits(stem) == stem \in {"IMG_1"}

(* C20: the AAE locator returns the first existing of D/S.aae, D/S.AAE; if *)
(* neither exists and S has the form IMG_<digits>, the first existing of   *)
(* D/IMG_O<digits>.aae, D/IMG_O<digits>.AAE; if none exists and S is       *)
(* purely numeric, the first existing of D/<S>O.aae, D/<S>O.AAE; otherwise *)
(* it returns no AAE.                                                      *)
C20_Original ==
    pc = "aae_found" =>
        LET S == AaeSubject.name.s
        IN  aae_result =
                first_existing(files,
                    <<Sibling(S, "aae"), Sibling(S, "AAE")>>
                    \o (IF IMG_digits(S)
                        THEN <<Sibling(apple_stem(S), "aae"), Sibling(apple_stem(S), "AAE")>>
                        ELSE <<>>)
                    \o (IF isdigit(S)
                        THEN <<Sibling(S \o "O", "aae"), Sibling(S \o "O", "AAE")>>
                        ELSE <<>>))

(* C20 as amended: as above, with the second pair of probes made for every *)
(* S that starts with IMG_, IMG_O being followed by the rest of S.         *)
C20_ProbeOrder ==
    pc = "aae_found" =>
        LET S == AaeSubject.name.s
        IN  aae_result =
                first_existing(files,
                    <<Sibling(S, "aae"), Sibling(S, "AAE")>>
                    \o (IF startswith_IMG(S)
                        THEN <<Sibling(apple_stem(S), "aae"), Sibling(apple_stem(S), "AAE")>>
                        ELSE <<>>)
                    \o (IF isdigit(S)
                        THEN <<Sibling(S \o "O", "aae"), Sibling(S \o "O", "AAE")>>
                        ELSE <<>>))

\* IMG_1.heic with only IMG_O1.aae present yields IMG_O1.aae
C20_Witness ==
    /\ pc = "aae_found"
    /\ AaeSubject.name.s = "IMG_1"
    /\ files = {AaeSubject, Sibling("IMG_O1", "aae")}
    /\ aae_result = Sibling("IMG_O1", "aae")

(* C21: in run mode, when the total size of the files to place times 1.1   *)
(* exceeds the space available on the target, no file is copied in the     *)
(* run.                                                                    *)
C21_NoCopyWithoutSpace ==
    (/\ ~is_dry_run
     /\ strategy \in ExportStrategies
     /\ Resolved
     /\ available_bytes >= 0
     /\ required_with_buffer(total_size(photo_files)) > available_bytes)
        => writes = <<>>

(* C22: an entry point that has exited returns 0 when the run completed    *)
(* without a fatal error, 1 when argument validation failed or an          *)
(* unexpected error was raised, and 130 when the user interrupted the run. *)
C22_ExitCodes ==
    pc = "exited" =>
        /\ process.outcome = "completed" => process.exit_code = 0
        /\ process.outcome \in {"invalid_arguments", "error"} => process.exit_code = 1
        /\ process.outcome = "interrupted" => process.exit_code = 130

----------------------------------------------------------------------------
\* C23: path validation is never bypassed: every source file whose metadata
\* was extracted or that was copied to the target passed validate_path
\* against the source directory; a file that resolves outside the allowed
\* directories is neither read nor copied.
ExtractedIds == {batch_results[k].id : k \in 1..Len(batch_results)}

C23_ValidatedBeforeUse ==
    /\ \A id \in ExtractedIds : validate_path(src[id].resolves) = "ok"
    /\ \A k \in 1..Len(placed) : validate_path(src[placed[k].id].resolves) = "ok"

----------------------------------------------------------------------------
\* C24: at the end of a completed run under keep_first, skip_duplicates or
\* preserve_duplicates, total_files_processed is the number of source files
\* not excluded as duplicates (photos and unsupported files),
\* photos_processed the number of photos processed, xmp_files_processed the
\* number of processed photos that have an XMP sidecar, and successful plus
\* failed exports equal photos_processed.
CountingStrategies == {"keep_first", "skip_duplicates", "preserve_duplicates"}

Unsupported == {f \in files : f.dir = SourceDir /\ is_unsupported(f)}

WithSidecar ==
    {k \in 1..Len(photo_files) :
        find_xmp_file(files, PhotoPath(src, SourceDir, photo_files[k])) # NoPath}

C24_Statistics ==
    (pc = "done" /\ strategy \in CountingStrategies) =>
        /\ stats.total_files_processed = Len(photo_files) + Cardinality(Unsupported)
        /\ stats.photos_processed = Len(photo_files)
        /\ stats.xmp_files_processed = Cardinality(WithSidecar)
        /\ stats.successful_exports + stats.failed_exports = stats.photos_processed

----------------------------------------------------------------------------
\* C25: the list of extraction results has the length and the order of the
\* list of input files, whatever order the batches complete in.
C25_ResultsInInputOrder ==
    pc = "place" =>
        /\ Len(batch_results) = Len(photo_files)
        /\ \A k \in 1..Len(batch_results) : batch_results[k].id = photo_files[k]

----------------------------------------------------------------------------
\* C26: worker tasks update no shared mutable state without
\* synchronization: no two tasks are inside the monitor's start_operation
\* or finish_operation at once, and the statistics and the filename counter
\* are not written while the tasks run.
InMonitor(t) == monitor.task[t].at \in {"read", "write", "pop"}

C26_WorkersSynchronized ==
    /\ \A t \in Tasks, u \in Tasks : (InMonitor(t) /\ InMonitor(u)) => t = u
    /\ (pc = "extract" /\ monitor.task # <<>>) =>
           /\ file_timestamps = NoTimestamps
           /\ stats = Add(ZeroStats, "total_files_processed", Cardinality(Unsupported))

----------------------------------------------------------------------------
ConflictAsked == writes[1].path

ConflictReturned == placed[1].path

\* the returned path is the asked one with counter n in the given digits
ReturnedWith(n, digits) ==
    /\ ConflictReturned = [ConflictAsked EXCEPT !.name.conf = digits]
    /\ \A m \in 1..(n - 1) : Numbered(ConflictAsked, m) \in files

(* C27 as stated: the resolver returns the path unchanged when it is free, *)
(* else <stem>-NNN<ext> for the smallest N >= 1 whose path is free, N      *)
(* written as three zero-padded digits; the returned path is free.         *)
C27_Original ==
    pc = "conflict_resolved" =>
        /\ ConflictReturned \notin files
        /\ IF ConflictAsked \notin files THEN ConflictReturned = ConflictAsked
           ELSE \E n \in 1..(ManyConflicts + 1) : ReturnedWith(n, ThreeDigits(n))

(* C27 amended: the resolver returns the path unchanged when it is free,   *)
(* else <stem>-NNN<ext> for the smallest N >= 1 whose path is free, N      *)
(* written as three zero-padded digits up to 999 and with all its digits   *)
(* from 1000 on; the returned path is free.                                *)
C27_SmallestFree ==
    pc = "conflict_resolved" =>
        /\ ConflictReturned \notin files
        /\ IF ConflictAsked \notin files THEN ConflictReturned = ConflictAsked
           ELSE \E n \in 1..(ManyConflicts + 1) :
                   ReturnedWith(n, IF n <= 999 THEN ThreeDigits(n) ELSE str(n))

C27_Witness ==
    /\ pc = "conflict_resolved"
    /\ ConflictAsked \in files
    /\ Numbered(ConflictAsked, 1) \in files
    /\ Numbered(ConflictAsked, 2) \notin files
    /\ Numbered(ConflictAsked, 3) \in files
    /\ ConflictReturned = Numbered(ConflictAsked, 2)

----------------------------------------------------------------------------
\* C28: when the user interrupts a run after some files were processed, the
\* run has stopped at a batch boundary and, in run mode, the partial
\* statistics are persisted before the process exits.
InterruptedAfterSome ==
    /\ pc = "exited"
    /\ process.outcome = "interrupted"
    /\ next_result > 1

AtBatchBoundary ==
    \/ next_result > Len(batch_results)
    \/ (next_result - 1) % batch_size(Cardinality({f \in files0 : f.dir = SourceDir}),
                                      Len(photo_files)) = 0

C28_InterruptFlushes ==
    InterruptedAfterSome =>
        /\ AtBatchBoundary
        /\ ~is_dry_run => Path(TargetDir, MetadataName) \in files

----------------------------------------------------------------------------
\* The run over the same photo files made by the batch path: the main
\* placements of the results in submission order (the files of the model
\* make one batch), then the preserved duplicates.  st = [o, ts, stats, placed]
RECURSIVE BatchPathMain(_, _)
BatchPathMain(st, k) ==
    IF k > Len(photo_files) THEN st
    ELSE LET metadata == process_photo_worker(PlacementStart.files, src, SourceDir,
                                              photo_files[k])
             r == process_photo(st.o, st.ts, is_dry_run, src, metadata, "none")
         IN  BatchPathMain([o |-> r.o, ts |-> r.ts, stats |-> st.stats,
                            placed |-> IF metadata.is_valid
                                       THEN Append(st.placed,
                                                   [id |-> metadata.id, area |-> "main",
                                                    path |-> r.target, ok |-> r.result])
                                       ELSE st.placed],
                           k + 1)

BatchPathPreserved(st, to_preserve) ==
    IF strategy = "preserve_duplicates" /\ to_preserve # <<>>
    THEN process_preserved_duplicates(st, to_preserve, src, is_dry_run)
    ELSE st

BatchPathPlaced ==
    BatchPathPreserved(
        BatchPathMain([o |-> PlacementStart, ts |-> NoTimestamps, stats |-> ZeroStats,
                       placed |-> <<>>], 1),
        handle_duplicates(strategy, duplicates, ZeroDuplicateStats).to_preserve).placed

\* C29: a run that takes the streaming path places the same files under the
\* same names as the batch path places for the same photo files.
C29_StreamingSameAsBatch ==
    (pc = "done" /\ use_streaming(Len(photo_files))) =>
        {<<placed[k].id, placed[k].area, placed[k].path>> : k \in 1..Len(placed)}
        = {<<BatchPathPlaced[k].id, BatchPathPlaced[k].area, BatchPathPlaced[k].path>> :
              k \in 1..Len(BatchPathPlaced)}

----------------------------------------------------------------------------
InNoGroup(id) == \A g \in Groups : id \notin Members(g)

AllPlacements(id) == {k \in 1..Len(placed) : placed[k].id = id}

\* C30: in a run with keep_first, skip_duplicates or preserve_duplicates no
\* source file is handed to placement more than once or placed more than
\* once, and every source photo that belongs to no duplicate group is
\* handed to placement exactly once.
C30_HandedOnce ==
    (strategy \in CountingStrategies /\ pc \in {"place", "finish", "done"}) =>
        \A id \in 1..Len(src) :
            /\ Cardinality(Handed(id)) <= 1
            /\ Cardinality(AllPlacements(id)) <= 1
            /\ InNoGroup(id) => Cardinality(Handed(id)) = 1

C30_Witness ==
    /\ pc = "done"
    /\ strategy = "preserve_duplicates"
    /\ \E id \in 1..Len(src) : InNoGroup(id) /\ Cardinality(Placements(id, "main")) = 1
    /\ \E g \in Groups :
          /\ Cardinality(Placements(duplicates[g].paths[1], "main")) = 1
          /\ Cardinality(Placements(duplicates[g].paths[2], "side")) = 1

============================================================================
